---- MODULE Spec2Model ----
(***************************************************************************)
(* Model of setup.py: the onboarding script that reconciles remote cloud   *)
(* resources (IAM OIDC provider and roles, S3 bucket and bucket policy,    *)
(* VPC network) and waits for remote state to converge.                    *)
(*                                                                         *)
(* Each function of the script is a small step machine: one action per     *)
(* remote call together with the local code that follows it up to the next *)
(* remote call.  sys.exit(1) and an uncaught exception both end the run    *)
(* (pc = "exit").  The remote account is the shared state.                 *)
(***************************************************************************)
EXTENDS Integers, Sequences, FiniteSets, TLC

VARIABLES
    \* ---- remote IAM: OIDC providers, and the runs of create_oidc_provider
    providers,      \* list_open_id_connect_providers, in listing order: [arn, url]
    oPc,            \* run -> position in create_oidc_provider
    oList,          \* run -> the ARNs the run listed
    oIdx,           \* run -> loop index into oList
    oRet,           \* run -> returned provider ARN (0: none)
    oCreateCalls,   \* run -> create_open_id_connect_provider calls issued
    oReadCalls,     \* run -> list / get_open_id_connect_provider calls issued
    oSawAbsent,     \* run -> the lookup loop ended without a match
    oFailed,        \* run -> a remote call failed (other than already-exists)
    oAfterFail,     \* run -> remote calls issued after such a failure
    oOverlap,       \* some run started while another was in flight
    oFaults,        \* remote failures injected so far
    \* ---- remote IAM: roles, and the current create_oidc_role / ensure_ecs_role
    roles,          \* role name -> [exists, visible, trust, inline]
    rFn,            \* the function running ("none" before the first)
    rPc,            \* its position
    rName,          \* role_name
    rTrust,         \* the trust policy the function builds
    rAttempt,       \* iterations of the post-create wait loop so far
    rSawAbsent,     \* the lookup raised NoSuchEntity
    rRejected,      \* create_role was rejected with EntityAlreadyExists
    rExt,           \* roles created by someone else during the run
    rInvocations,   \* invocations started so far
    \* ---- remote S3, and the current create_s3_bucket / apply_bucket_policy
    buckets,        \* bucket name -> [exists, pab, hasPolicy, policy]
    bFn,            \* the function running ("none" before the first)
    bPc,            \* its position
    bCaller,        \* what sts get_caller_identity answers: [account, arn]
    bRegion,        \* the region argument
    bName,          \* bucket_name
    bPolicy,        \* current_policy, the decoded document being edited
    bSawAbsent,     \* head_bucket answered 404
    bRejected,      \* create_bucket was rejected because the bucket exists
    bCalls,         \* mutating calls issued: [create, pab, put_policy]
    bExt,           \* buckets created by someone else during the run
    bFaults,        \* remote failures injected so far
    bInvocations,   \* invocations started so far
    bRunRegion,     \* region of main (line 1932), the region_name of the run's clients
    bResolved,      \* history: [account, region, name] of every bucket name a run resolved
    \* ---- main(): the provisioning sequence of lines 1943-1967
    mPc,            \* the call main is in
    mRun,           \* which run of the script this is
    mRepository,    \* f"{owner}/{repo}"
    mEmptyStart,    \* the first run started on an empty account
    mCompleted,     \* the runs that reached the end of the sequence
    \* ---- remote EC2, and the current run of the network step
    ec2,            \* [vpcs, subnets, igws, rts, sgs], each in describe order
    net,            \* the locals of select_or_create_vpc_network_config /
                    \* create_new_vpc_and_sg, and what the previous run did
    \* ---- the wait loops
    wFn,            \* the wait operation the executions run
    wBudget,        \* its arguments: [timeout, interval, max_attempts]
    snaps,          \* what the remote answered at the 1st, 2nd, ... evaluation
    poll,           \* execution -> the locals of the wait loop and its trace
    \* ---- remote ECS, Secrets Manager and CloudWatch Logs, and the current
    \* ---- deploy_as_ecs_service / ensure_cloudwatch_log_group
    ecs,            \* [cluster, services, revisions] of cluster resourcely-campaigns
    secret,         \* the secret campaigns_agent_resourcely_secrets_<account>: [exists, value]
    logs,           \* the names of the log groups of the account
    dep             \* the locals of the function running, and its call counts

oidcVars == <<providers, oPc, oList, oIdx, oRet, oCreateCalls, oReadCalls, oSawAbsent,
              oFailed, oAfterFail, oOverlap, oFaults>>

roleVars == <<roles, rFn, rPc, rName, rTrust, rAttempt, rSawAbsent, rRejected,
              rExt, rInvocations>>

bucketVars == <<buckets, bFn, bPc, bCaller, bRegion, bName, bPolicy, bSawAbsent,
                bRejected, bCalls, bExt, bFaults, bInvocations, bRunRegion, bResolved>>

mainVars == <<mPc, mRun, mRepository, mEmptyStart, mCompleted>>

netVars == <<ec2, net>>

pollVars == <<wFn, wBudget, snaps, poll>>

ecsVars == <<ecs, secret, logs, dep>>

vars == <<oidcVars, roleVars, bucketVars, mainVars, netVars, pollVars, ecsVars>>

\* what the steps of one function leave alone
OidcFrame == UNCHANGED <<roleVars, bucketVars, mainVars, netVars, pollVars, ecsVars>>
RoleFrame == UNCHANGED <<oidcVars, bucketVars, mainVars, netVars, pollVars, ecsVars>>
BucketFrame == UNCHANGED <<oidcVars, roleVars, mainVars, netVars, pollVars, ecsVars>>
NetFrame == UNCHANGED <<oidcVars, roleVars, bucketVars, mainVars, pollVars, ecsVars>>
PollFrame == UNCHANGED <<oidcVars, roleVars, bucketVars, mainVars, netVars, ecsVars>>
DeployFrame == UNCHANGED <<oidcVars, bucketVars, mainVars, netVars, pollVars>>

\* ------------------------------------------------------------------ bounds
MaxFaults == 1
MaxExternal == 1
MaxInvocations == 2
MaxNetRuns == 2
MaxAborts == 1

\* ------------------------------------------------------------- OIDC provider
Runs == {1, 2}

SCHEME == "https://"
TargetHost == "token.actions.githubusercontent.com"
OtherHost == "gitlab.com"

\* target_url, as the sequence of its parts
target_url == <<SCHEME, TargetHost>>

\* str.replace("https://", ""): every occurrence of the scheme is dropped
NormalizeUrlKeep(url) == url
NormalizeUrl(url) == SelectSeq(url, LAMBDA t : t # SCHEME)

normalized_target_url == NormalizeUrl(target_url)

\* the comparison of the lookup loop
UrlMatches(url) == NormalizeUrl(url) = normalized_target_url

\* The remote store identifies a provider by the host of its URL.
UrlHost(url) == url[Len(url)]

\* The remote's own check behind EntityAlreadyExists (line 313)
RemoteHasProvider(store, url) ==
    \E i \in 1..Len(store) : UrlHost(store[i].url) = UrlHost(url)

\* the providers the remote holds for the GitHub Actions issuer
TargetProviders == {i \in 1..Len(providers) : UrlHost(providers[i].url) = TargetHost}

\* Provider ARNs are allocated in creation order.
NewArn(store) == Len(store) + 1

ProviderByArn(store, arn) == CHOOSE p \in {store[i] : i \in 1..Len(store)} : p.arn = arn

ListArns(store) == [i \in 1..Len(store) |-> store[i].arn]

\* except ClientError around create_open_id_connect_provider
OnCreateErrorAbort(code) == "exit"
OnCreateError(code) == IF code = "EntityAlreadyExists" THEN "relist" ELSE "exit"

\* accounts the script may be pointed at
InitialProviders ==
    { <<>>,
      <<[arn |-> 1, url |-> <<OtherHost>>]>>,
      <<[arn |-> 1, url |-> <<TargetHost>>]>>,
      <<[arn |-> 1, url |-> <<OtherHost>>], [arn |-> 2, url |-> <<TargetHost>>]>>,
      <<[arn |-> 1, url |-> <<SCHEME, TargetHost>>], [arn |-> 2, url |-> <<OtherHost>>]>> }

OidcLocalsInit ==
    /\ oPc = [r \in Runs |-> "idle"]
    /\ oList = [r \in Runs |-> <<>>]
    /\ oIdx = [r \in Runs |-> 0]
    /\ oRet = [r \in Runs |-> 0]
    /\ oCreateCalls = [r \in Runs |-> 0]
    /\ oReadCalls = [r \in Runs |-> 0]
    /\ oSawAbsent = [r \in Runs |-> FALSE]
    /\ oFailed = [r \in Runs |-> FALSE]
    /\ oAfterFail = [r \in Runs |-> 0]
    /\ oOverlap = FALSE
    /\ oFaults = 0

OidcInit == providers \in InitialProviders /\ OidcLocalsInit

OidcIdle == providers = <<>> /\ OidcLocalsInit

OidcInFlight(r) == oPc[r] \notin {"idle", "done", "exit"}

\* bookkeeping: one more remote call by run r
OidcCall(r) ==
    oAfterFail' = [oAfterFail EXCEPT ![r] = IF oFailed[r] THEN @ + 1 ELSE @]

\* bookkeeping: one more read call (list or get) by run r
OidcRead(r) ==
    oReadCalls' = [oReadCalls EXCEPT ![r] = @ + 1]

\* where the lookup loop goes after item i of a list of n
AfterItem(r, phase, i, n) ==
    IF i < n THEN phase
    ELSE IF phase = "scan" THEN "create" ELSE "exit"

\* line 285: list_open_id_connect_providers
OidcList(r) ==
    /\ oPc[r] = "idle"
    /\ oList' = [oList EXCEPT ![r] = ListArns(providers)]
    /\ oIdx' = [oIdx EXCEPT ![r] = 1]
    /\ oPc' = [oPc EXCEPT ![r] = IF Len(providers) = 0 THEN "create" ELSE "scan"]
    /\ oSawAbsent' = [oSawAbsent EXCEPT ![r] = Len(providers) = 0]
    /\ oOverlap' = (oOverlap \/ \E q \in Runs \ {r} : OidcInFlight(q))
    /\ OidcCall(r)
    /\ OidcRead(r)
    /\ UNCHANGED <<providers, oRet, oCreateCalls, oFailed, oFaults>>
    /\ OidcFrame

\* lines 286-298 and 317-326: one iteration, get_open_id_connect_provider succeeds
OidcGet(r) ==
    /\ oPc[r] \in {"scan", "rescan"}
    /\ LET arn == oList[r][oIdx[r]]
           details == ProviderByArn(providers, arn)
           n == Len(oList[r])
       IN IF UrlMatches(details.url)
          THEN /\ oRet' = [oRet EXCEPT ![r] = arn]
               /\ oPc' = [oPc EXCEPT ![r] = "done"]
               /\ UNCHANGED <<oIdx, oSawAbsent>>
          ELSE /\ oPc' = [oPc EXCEPT ![r] = AfterItem(r, oPc[r], oIdx[r], n)]
               /\ oIdx' = [oIdx EXCEPT ![r] = @ + 1]
               /\ oSawAbsent' = [oSawAbsent EXCEPT ![r] =
                                   @ \/ (oPc[r] = "scan" /\ oIdx[r] >= n)]
               /\ UNCHANGED oRet
    /\ OidcCall(r)
    /\ OidcRead(r)
    /\ UNCHANGED <<providers, oList, oCreateCalls, oFailed, oOverlap, oFaults>>
    /\ OidcFrame

\* lines 296-298 and 325-326: get_open_id_connect_provider raises ClientError;
\* the handler prints (first loop) and continues with the next provider
OidcGetFails(r) ==
    /\ oPc[r] \in {"scan", "rescan"}
    /\ oFaults < MaxFaults
    /\ oFaults' = oFaults + 1
    /\ oPc' = [oPc EXCEPT ![r] = AfterItem(r, oPc[r], oIdx[r], Len(oList[r]))]
    /\ oIdx' = [oIdx EXCEPT ![r] = @ + 1]
    /\ oSawAbsent' = [oSawAbsent EXCEPT ![r] =
                        @ \/ (oPc[r] = "scan" /\ oIdx[r] >= Len(oList[r]))]
    /\ oFailed' = [oFailed EXCEPT ![r] = TRUE]
    /\ OidcCall(r)
    /\ OidcRead(r)
    /\ UNCHANGED <<providers, oList, oRet, oCreateCalls, oOverlap>>
    /\ OidcFrame

\* lines 301-311: create_open_id_connect_provider succeeds; the remote keeps
\* the URL as given or without its scheme
OidcCreate(r) ==
    /\ oPc[r] = "create"
    /\ ~RemoteHasProvider(providers, target_url)
    /\ \E u \in {target_url, NormalizeUrl(target_url)} :
          providers' = Append(providers, [arn |-> NewArn(providers), url |-> u])
    /\ oRet' = [oRet EXCEPT ![r] = NewArn(providers)]
    /\ oCreateCalls' = [oCreateCalls EXCEPT ![r] = @ + 1]
    /\ oPc' = [oPc EXCEPT ![r] = "done"]
    /\ OidcCall(r)
    /\ UNCHANGED oReadCalls
    /\ UNCHANGED <<oList, oIdx, oSawAbsent, oFailed, oOverlap, oFaults>>
    /\ OidcFrame

\* lines 312-316: the remote rejects the create with EntityAlreadyExists;
\* the handler lists the providers again
OidcCreateExists(r) ==
    /\ oPc[r] = "create"
    /\ RemoteHasProvider(providers, target_url)
    /\ oCreateCalls' = [oCreateCalls EXCEPT ![r] = @ + 1]
    /\ oPc' = [oPc EXCEPT ![r] = OnCreateError("EntityAlreadyExists")]
    /\ OidcCall(r)
    /\ UNCHANGED oReadCalls
    /\ UNCHANGED <<providers, oList, oIdx, oRet, oSawAbsent, oFailed, oOverlap, oFaults>>
    /\ OidcFrame

\* lines 329-331: the create fails for another reason
OidcCreateFails(r) ==
    /\ oPc[r] = "create"
    /\ oFaults < MaxFaults
    /\ oFaults' = oFaults + 1
    /\ oCreateCalls' = [oCreateCalls EXCEPT ![r] = @ + 1]
    /\ oPc' = [oPc EXCEPT ![r] = OnCreateError("AccessDenied")]
    /\ oFailed' = [oFailed EXCEPT ![r] = TRUE]
    /\ OidcCall(r)
    /\ UNCHANGED oReadCalls
    /\ UNCHANGED <<providers, oList, oIdx, oRet, oSawAbsent, oOverlap>>
    /\ OidcFrame

\* line 316: list_open_id_connect_providers in the already-exists handler
OidcRelist(r) ==
    /\ oPc[r] = "relist"
    /\ oList' = [oList EXCEPT ![r] = ListArns(providers)]
    /\ oIdx' = [oIdx EXCEPT ![r] = 1]
    /\ oPc' = [oPc EXCEPT ![r] = IF Len(providers) = 0 THEN "exit" ELSE "rescan"]
    /\ OidcCall(r)
    /\ OidcRead(r)
    /\ UNCHANGED <<providers, oRet, oCreateCalls, oSawAbsent, oFailed, oOverlap, oFaults>>
    /\ OidcFrame

OidcNext ==
    \E r \in Runs :
        \/ OidcList(r)
        \/ OidcGet(r)
        \/ OidcGetFails(r)
        \/ OidcCreate(r)
        \/ OidcCreateExists(r)
        \/ OidcCreateFails(r)
        \/ OidcRelist(r)


\* --------------------------------------------------------------- IAM roles
OidcRoleName == "ResourcelyGithubActionsOIDC"
TaskRoleName == "resourcely_campaigns-agent-task-role"
ExecutionRoleName == "resourcely_campaigns-agent-execution-role"
RoleNames == {OidcRoleName, TaskRoleName, ExecutionRoleName}

EcsPolicyName == "CampaignsAgentS3AndSecretsPolicy"
StatePolicyName == "TerraformStateS3AccessPolicy"

Repositories == {"acme/infra", "acme/other"}

\* lines 342-359: the trust policy of create_oidc_role
OidcTrustPolicy(provider_arn, repository) ==
    [principal |-> <<"Federated", provider_arn>>, sub |-> repository]

\* lines 1172-1179: the trust policy of ensure_ecs_role
EcsTrustPolicy == [principal |-> <<"Service", 0>>, sub |-> ""]

NoRole == [exists |-> FALSE, visible |-> FALSE, trust |-> EcsTrustPolicy, inline |-> {}]

\* range(10) of the wait loop
RoleWaitAttempts == 10

\* trust policies a role found in the account may carry
PriorTrustPolicies ==
    {OidcTrustPolicy(a, s) : a \in {1, 2}, s \in Repositories} \cup {EcsTrustPolicy}

RoleLocalsInit ==
    /\ rFn = "none"
    /\ rPc = "idle"
    /\ rName = OidcRoleName
    /\ rTrust = EcsTrustPolicy
    /\ rAttempt = 0
    /\ rSawAbsent = FALSE
    /\ rRejected = FALSE
    /\ rExt = 0
    /\ rInvocations = 0

RoleIdle == roles = [n \in RoleNames |-> NoRole] /\ RoleLocalsInit

RoleInit ==
    /\ \E t \in PriorTrustPolicies, present \in SUBSET RoleNames :
          roles = [n \in RoleNames |->
                     IF n \in present
                     THEN [exists |-> TRUE, visible |-> TRUE, trust |-> t, inline |-> {}]
                     ELSE NoRole]
    /\ RoleLocalsInit

\* entry of create_oidc_role / ensure_ecs_role
RoleBegin(fn, name, trust) ==
    /\ rFn' = fn
    /\ rPc' = "lookup"
    /\ rName' = name
    /\ rTrust' = trust
    /\ rAttempt' = 0
    /\ rSawAbsent' = FALSE
    /\ rRejected' = FALSE
    /\ rInvocations' = rInvocations + 1

\* lines 362-364 and 1210-1212: after get_role found the role
AfterRoleFound(fn) == IF fn = "create_oidc_role" THEN "done" ELSE "put_policy"

\* lines 384-386 and 1222-1224: except ClientError around create_role
OnCreateRoleError(code) == "exit"

\* get_role of the lookup (lines 362, 1210)
RoleLookup ==
    /\ rPc = "lookup"
    /\ IF roles[rName].exists /\ roles[rName].visible
       THEN rPc' = AfterRoleFound(rFn) /\ UNCHANGED rSawAbsent
       ELSE rPc' = "create" /\ rSawAbsent' = TRUE
    /\ UNCHANGED <<roles, rFn, rName, rTrust, rAttempt, rRejected, rExt, rInvocations>>
    /\ RoleFrame

\* create_role accepted (lines 367-372, 1214-1221); the new role may not be
\* readable at once
RoleCreate ==
    /\ rPc = "create"
    /\ ~roles[rName].exists
    /\ \E v \in BOOLEAN :
          roles' = [roles EXCEPT ![rName] =
                      [exists |-> TRUE, visible |-> v, trust |-> rTrust, inline |-> {}]]
    /\ rPc' = IF rFn = "create_oidc_role" THEN "wait" ELSE "put_policy"
    /\ UNCHANGED <<rFn, rName, rTrust, rAttempt, rSawAbsent, rRejected, rExt, rInvocations>>
    /\ RoleFrame

\* create_role rejected with EntityAlreadyExists: the role appeared after the lookup
RoleCreateExists ==
    /\ rPc = "create"
    /\ roles[rName].exists
    /\ rRejected' = TRUE
    /\ rPc' = OnCreateRoleError("EntityAlreadyExists")
    /\ UNCHANGED <<roles, rFn, rName, rTrust, rAttempt, rSawAbsent, rExt, rInvocations>>
    /\ RoleFrame

\* lines 374-383: one iteration of the wait loop of create_oidc_role
RoleWait ==
    /\ rPc = "wait"
    /\ IF roles[rName].visible
       THEN rPc' = "done" /\ UNCHANGED rAttempt
       ELSE /\ rAttempt' = rAttempt + 1
            /\ rPc' = IF rAttempt + 1 >= RoleWaitAttempts THEN "exit" ELSE "wait"
    /\ UNCHANGED <<roles, rFn, rName, rTrust, rSawAbsent, rRejected, rExt, rInvocations>>
    /\ RoleFrame

\* lines 1226-1235: put_role_policy of ensure_ecs_role
RolePutPolicy ==
    /\ rPc = "put_policy"
    /\ roles' = [roles EXCEPT ![rName].inline = @ \cup {EcsPolicyName}]
    /\ rPc' = "final_get"
    /\ UNCHANGED <<rFn, rName, rTrust, rAttempt, rSawAbsent, rRejected, rExt, rInvocations>>
    /\ RoleFrame

\* line 1236: get_role for the ARN; NoSuchEntity is not caught here
RoleFinalGet ==
    /\ rPc = "final_get"
    /\ rPc' = IF roles[rName].visible THEN "done" ELSE "exit"
    /\ UNCHANGED <<roles, rFn, rName, rTrust, rAttempt, rSawAbsent, rRejected, rExt, rInvocations>>
    /\ RoleFrame

\* the remote makes a created role readable
RolePropagate ==
    /\ \E n \in RoleNames :
          /\ roles[n].exists /\ ~roles[n].visible
          /\ roles' = [roles EXCEPT ![n].visible = TRUE]
    /\ UNCHANGED <<rFn, rPc, rName, rTrust, rAttempt, rSawAbsent, rRejected, rExt, rInvocations>>
    /\ RoleFrame

\* someone else creates the role between the lookup and the create
RoleAppears ==
    /\ rPc = "create"
    /\ ~roles[rName].exists
    /\ rExt < MaxExternal
    /\ rExt' = rExt + 1
    /\ \E t \in PriorTrustPolicies :
          roles' = [roles EXCEPT ![rName] =
                      [exists |-> TRUE, visible |-> TRUE, trust |-> t, inline |-> {}]]
    /\ UNCHANGED <<rFn, rPc, rName, rTrust, rAttempt, rSawAbsent, rRejected, rInvocations>>
    /\ RoleFrame

RoleSteps ==
    \/ RoleLookup
    \/ RoleCreate
    \/ RoleCreateExists
    \/ RoleWait
    \/ RolePutPolicy
    \/ RoleFinalGet
    \/ RolePropagate
    \/ RoleAppears

\* a caller invokes create_oidc_role (line 1948) or ensure_ecs_role (lines 1246-1247)
RoleInvoke ==
    /\ rPc \in {"idle", "done", "exit"}
    /\ rInvocations < MaxInvocations
    /\ \/ \E a \in {1, 2}, s \in Repositories :
             RoleBegin("create_oidc_role", OidcRoleName, OidcTrustPolicy(a, s))
       \/ \E n \in {TaskRoleName, ExecutionRoleName} :
             RoleBegin("ensure_ecs_role", n, EcsTrustPolicy)
    /\ UNCHANGED <<roles, rExt>>
    /\ RoleFrame

RoleNext == RoleInvoke \/ RoleSteps

\* ------------------------------------------------- JSON documents and dicts
\* A JSON object, as text, is the sequence of its members [k, v] in the order
\* written, with whitespace between them (members with key WS).  A Python
\* dict is the sequence of its items in insertion order, keys unique.  Every
\* value is a sequence of strings: a JSON string is a sequence of one, a JSON
\* array the sequence of its elements, {"AWS": arn} the pair <<"AWS", arn>>.
WS == " "

Range(f) == {f[i] : i \in DOMAIN f}

DictKeys(d) == {d[i].k : i \in 1..Len(d)}

\* d.get(key): <<>> stands for None
DictGet(d, key) ==
    IF key \in DictKeys(d)
    THEN (CHOOSE m \in Range(d) : m.k = key).v
    ELSE <<>>

\* d1 == d2 on dicts: the same keys with equal values, whatever the order
DictEq(d1, d2) == Range(d1) = Range(d2)

\* d.update(u), one item of u after the other: a key d has keeps its place
\* and takes the new value, a new key is appended
RECURSIVE DictUpdate(_, _)
DictUpdate(d, u) ==
    IF u = <<>> THEN d
    ELSE LET item == Head(u)
             d1 == IF item.k \in DictKeys(d)
                   THEN [i \in 1..Len(d) |-> IF d[i].k = item.k THEN item ELSE d[i]]
                   ELSE Append(d, item)
         IN DictUpdate(d1, Tail(u))

\* json.loads of one object: whitespace is dropped, members are kept in order
JsonLoadsObject(text) == SelectSeq(text, LAMBDA m : m.k # WS)

\* json.dumps of one dict: its items in order, no whitespace members
JsonDumpsObject(d) == d

\* json.loads / json.dumps of a policy: the list of its statements
JsonLoads(text) == [i \in 1..Len(text) |-> JsonLoadsObject(text[i])]
JsonDumps(doc) == [i \in 1..Len(doc) |-> JsonDumpsObject(doc[i])]

\* ------------------------------------------------------------- S3 bucket
base_bucket_name == "resourcely-campaigns-terraform-state"
Regions == {"us-west-2", "eu-west-1"}
Accounts == {"111"}
Callers == {[account |-> "111", arn |-> "arn:aws:iam::111:user/alice"],
            [account |-> "111", arn |-> "arn:aws:iam::111:user/bob"]}

\* line 427: f"{base_bucket_name}-{account_id}-{region}"
BucketName(base, account_id, region) == <<base, account_id, region>>

BucketNames == {BucketName(base_bucket_name, a, g) : a \in Accounts, g \in Regions}

\* lines 515-516: f"arn:aws:s3:::{bucket_name}" and f"arn:aws:s3:::{bucket_name}/*"
BucketArn(bucket_name) ==
    IF bucket_name[3] = "us-west-2"
    THEN "arn:aws:s3:::resourcely-campaigns-terraform-state-111-us-west-2"
    ELSE "arn:aws:s3:::resourcely-campaigns-terraform-state-111-eu-west-1"
BucketObjectsArn(bucket_name) ==
    IF bucket_name[3] = "us-west-2"
    THEN "arn:aws:s3:::resourcely-campaigns-terraform-state-111-us-west-2/*"
    ELSE "arn:aws:s3:::resourcely-campaigns-terraform-state-111-eu-west-1/*"

AllowSid == "AllowLocalDockerAccess"

\* lines 505-518: intended_statement
IntendedStatement(principal_arn, bucket_name) ==
    << [k |-> "Sid", v |-> <<AllowSid>>],
       [k |-> "Effect", v |-> <<"Allow">>],
       [k |-> "Principal", v |-> <<"AWS", principal_arn>>],
       [k |-> "Action", v |-> <<"s3:GetObject", "s3:PutObject", "s3:ListBucket">>],
       [k |-> "Resource", v |-> <<BucketArn(bucket_name), BucketObjectsArn(bucket_name)>>] >>

\* line 537: stmt == intended_statement
StatementMatchesTextual(stmt, intended) == stmt = intended
StatementMatches(stmt, intended) == DictEq(stmt, intended)

\* line 542: stmt.update(intended_statement)
UpdateStatement(stmt, intended) == DictUpdate(stmt, intended)

\* line 534: the first statement with Sid AllowLocalDockerAccess (0: none)
FirstAllowIndex(doc) ==
    LET hits == {i \in 1..Len(doc) : DictGet(doc[i], "Sid") = <<AllowSid>>}
    IN IF hits = {} THEN 0 ELSE CHOOSE i \in hits : \A j \in hits : i <= j

\* lines 531-546: the document to put, or the decision to return early
AlreadyApplied(doc, intended) ==
    LET i == FirstAllowIndex(doc)
    IN i # 0 /\ StatementMatches(doc[i], intended)

EditedPolicyReplacing(doc, intended) == <<intended>>
EditedPolicy(doc, intended) ==
    LET i == FirstAllowIndex(doc)
    IN IF i = 0 THEN Append(doc, intended)
       ELSE [doc EXCEPT ![i] = UpdateStatement(doc[i], intended)]

NoBucket == [exists |-> FALSE, pab |-> FALSE, hasPolicy |-> FALSE, policy |-> <<>>]

NoCalls == [create |-> 0, pab |-> 0, put_policy |-> 0]

\* statements a bucket policy found in the account may hold for the Sid
OtherStatement ==
    << [k |-> "Sid", v |-> <<"Other">>], [k |-> "Effect", v |-> <<"Deny">>] >>

AuditStatement ==
    << [k |-> "Sid", v |-> <<"Audit">>], [k |-> "Effect", v |-> <<"Allow">>] >>

Swap(seq, i, j) ==
    [n \in 1..Len(seq) |-> IF n = i THEN seq[j] ELSE IF n = j THEN seq[i] ELSE seq[n]]

SwapValue(stmt, key) ==
    [n \in 1..Len(stmt) |->
        IF stmt[n].k = key THEN [k |-> key, v |-> Swap(stmt[n].v, 1, 2)] ELSE stmt[n]]

StoredAllowStatements(bucket_name) ==
    UNION { LET s == IntendedStatement(c.arn, bucket_name)
            IN { s,
                 Swap(s, 1, 5),
                 <<s[1], [k |-> WS, v |-> <<>>], s[2], s[3], s[4], s[5]>>,
                 SwapValue(s, "Action"),
                 SwapValue(s, "Resource"),
                 Append(s, [k |-> "Condition", v |-> <<"aws:SecureTransport">>]),
                 <<s[1], s[2]>> }
          : c \in Callers }

StoredPolicies(bucket_name) ==
    { <<OtherStatement>> }
    \cup { <<a>> : a \in StoredAllowStatements(bucket_name) }
    \cup { <<OtherStatement, a>> : a \in StoredAllowStatements(bucket_name) }
    \cup { <<OtherStatement, IntendedStatement(c.arn, bucket_name), AuditStatement>>
            : c \in Callers }

BucketLocalsInit ==
    /\ bFn = "none"
    /\ bPc = "idle"
    /\ bRegion = "us-west-2"
    /\ bName = BucketName(base_bucket_name, "111", "us-west-2")
    /\ bPolicy = <<>>
    /\ bSawAbsent = FALSE
    /\ bRejected = FALSE
    /\ bCalls = NoCalls
    /\ bExt = 0
    /\ bFaults = 0
    /\ bInvocations = 0
    /\ bResolved = {}

BucketIdle ==
    /\ buckets = [n \in BucketNames |-> NoBucket]
    /\ bCaller = [account |-> "111", arn |-> "arn:aws:iam::111:user/alice"]
    /\ bRunRegion = "us-west-2"
    /\ BucketLocalsInit

\* the account holds no bucket, or the us-west-2 bucket with some policy
BucketInit ==
    /\ \/ buckets = [n \in BucketNames |-> NoBucket]
       \/ \E pab \in BOOLEAN :
            buckets = [n \in BucketNames |->
                         IF n[3] = "us-west-2"
                         THEN [exists |-> TRUE, pab |-> pab, hasPolicy |-> FALSE, policy |-> <<>>]
                         ELSE NoBucket]
       \/ \E pol \in StoredPolicies(BucketName(base_bucket_name, "111", "us-west-2")) :
            buckets = [n \in BucketNames |->
                         IF n[3] = "us-west-2"
                         THEN [exists |-> TRUE, pab |-> TRUE, hasPolicy |-> TRUE, policy |-> pol]
                         ELSE NoBucket]
    /\ bCaller \in Callers
    /\ bRunRegion \in Regions
    /\ BucketLocalsInit

\* entry of create_s3_bucket / apply_bucket_policy
BucketBegin(fn, region, bucket_name) ==
    /\ bFn' = fn
    /\ bPc' = "identity"
    /\ bRegion' = region
    /\ bName' = bucket_name
    /\ bPolicy' = <<>>
    /\ bSawAbsent' = FALSE
    /\ bRejected' = FALSE
    /\ bInvocations' = bInvocations + 1

\* lines 443-445: except ClientError around create_bucket
OnCreateBucketError(code) == "exit"

\* lines 431-448: what follows a head_bucket error
OnHeadBucketErrorSkip(code) == "pab"
OnHeadBucketError(code) == IF code \in {"404", "NoSuchBucket"} THEN "create" ELSE "exit"

\* lines 524-529: what follows a get_bucket_policy error
OnGetPolicyError(code) == IF code = "NoSuchBucketPolicy" THEN "edit" ELSE "exit"

\* lines 425, 504: sts get_caller_identity (get_account_id, get_current_aws_principal)
BucketIdentity ==
    /\ bPc = "identity"
    /\ IF bFn = "create_s3_bucket"
       THEN /\ bName' = BucketName(base_bucket_name, bCaller.account, bRegion)
            /\ bResolved' = bResolved \cup {[account |-> bCaller.account,
                                              region |-> bRunRegion, name |-> bName']}
            /\ bPc' = "head"
       ELSE /\ bPc' = "get_policy"
            /\ UNCHANGED <<bName, bResolved>>
    /\ UNCHANGED <<buckets, bFn, bCaller, bRegion, bPolicy, bSawAbsent, bRejected,
                   bCalls, bExt, bFaults, bInvocations, bRunRegion>>
    /\ BucketFrame

\* lines 429-434: head_bucket answers, or raises 404
BucketHead ==
    /\ bPc = "head"
    /\ IF buckets[bName].exists
       THEN bPc' = "pab" /\ UNCHANGED bSawAbsent
       ELSE bPc' = OnHeadBucketError("404") /\ bSawAbsent' = TRUE
    /\ UNCHANGED <<buckets, bFn, bCaller, bRegion, bName, bPolicy, bRejected,
                   bCalls, bExt, bFaults, bInvocations, bRunRegion, bResolved>>
    /\ BucketFrame

\* lines 446-448: head_bucket raises another error (403, 500, ...)
BucketHeadFails ==
    /\ bPc = "head"
    /\ bFaults < MaxFaults
    /\ bFaults' = bFaults + 1
    /\ bPc' = OnHeadBucketError("403")
    /\ UNCHANGED <<buckets, bFn, bCaller, bRegion, bName, bPolicy, bSawAbsent,
                   bRejected, bCalls, bExt, bInvocations, bRunRegion, bResolved>>
    /\ BucketFrame

\* lines 435-442: create_bucket accepted, the waiter returns
BucketCreate ==
    /\ bPc = "create"
    /\ ~buckets[bName].exists
    /\ buckets' = [buckets EXCEPT ![bName] =
                     [exists |-> TRUE, pab |-> FALSE, hasPolicy |-> FALSE, policy |-> <<>>]]
    /\ bCalls' = [bCalls EXCEPT !.create = @ + 1]
    /\ bPc' = "pab"
    /\ UNCHANGED <<bFn, bCaller, bRegion, bName, bPolicy, bSawAbsent, bRejected,
                   bExt, bFaults, bInvocations, bRunRegion, bResolved>>
    /\ BucketFrame

\* create_bucket rejected with BucketAlreadyOwnedByYou: it appeared after head_bucket
BucketCreateExists ==
    /\ bPc = "create"
    /\ buckets[bName].exists
    /\ bCalls' = [bCalls EXCEPT !.create = @ + 1]
    /\ bRejected' = TRUE
    /\ bPc' = OnCreateBucketError("BucketAlreadyOwnedByYou")
    /\ UNCHANGED <<buckets, bFn, bCaller, bRegion, bName, bPolicy, bSawAbsent,
                   bExt, bFaults, bInvocations, bRunRegion, bResolved>>
    /\ BucketFrame

\* lines 450-465: put_public_access_block, then return bucket_name
BucketPutPab ==
    /\ bPc = "pab"
    /\ buckets' = [buckets EXCEPT ![bName].pab = TRUE]
    /\ bCalls' = [bCalls EXCEPT !.pab = @ + 1]
    /\ bPc' = "done"
    /\ UNCHANGED <<bFn, bCaller, bRegion, bName, bPolicy, bSawAbsent, bRejected,
                   bExt, bFaults, bInvocations, bRunRegion, bResolved>>
    /\ BucketFrame

\* lines 461-463: put_public_access_block raises
BucketPutPabFails ==
    /\ bPc = "pab"
    /\ bFaults < MaxFaults
    /\ bFaults' = bFaults + 1
    /\ bCalls' = [bCalls EXCEPT !.pab = @ + 1]
    /\ bPc' = "exit"
    /\ UNCHANGED <<buckets, bFn, bCaller, bRegion, bName, bPolicy, bSawAbsent,
                   bRejected, bExt, bInvocations, bRunRegion, bResolved>>
    /\ BucketFrame

\* lines 521-546: get_bucket_policy, then the edit of the decoded document
BucketGetPolicy ==
    /\ bPc = "get_policy"
    /\ buckets[bName].exists
    /\ LET current_policy == IF buckets[bName].hasPolicy
                             THEN JsonLoads(buckets[bName].policy)
                             ELSE <<>>
           intended == IntendedStatement(bCaller.arn, bName)
       IN IF AlreadyApplied(current_policy, intended)
          THEN bPc' = "done" /\ bPolicy' = current_policy
          ELSE bPc' = "put_policy" /\ bPolicy' = EditedPolicy(current_policy, intended)
    /\ UNCHANGED <<buckets, bFn, bCaller, bRegion, bName, bSawAbsent, bRejected,
                   bCalls, bExt, bFaults, bInvocations, bRunRegion, bResolved>>
    /\ BucketFrame

\* lines 527-529: get_bucket_policy raises another error (here: NoSuchBucket)
BucketGetPolicyFails ==
    /\ bPc = "get_policy"
    /\ ~buckets[bName].exists
    /\ bPc' = OnGetPolicyError("NoSuchBucket")
    /\ UNCHANGED <<buckets, bFn, bCaller, bRegion, bName, bPolicy, bSawAbsent,
                   bRejected, bCalls, bExt, bFaults, bInvocations, bRunRegion, bResolved>>
    /\ BucketFrame

\* lines 549-552: put_bucket_policy(json.dumps(current_policy))
BucketPutPolicy ==
    /\ bPc = "put_policy"
    /\ buckets' = [buckets EXCEPT ![bName].hasPolicy = TRUE,
                                  ![bName].policy = JsonDumps(bPolicy)]
    /\ bCalls' = [bCalls EXCEPT !.put_policy = @ + 1]
    /\ bPc' = "done"
    /\ UNCHANGED <<bFn, bCaller, bRegion, bName, bPolicy, bSawAbsent, bRejected,
                   bExt, bFaults, bInvocations, bRunRegion, bResolved>>
    /\ BucketFrame

\* someone else creates the bucket between head_bucket and create_bucket
BucketAppears ==
    /\ bPc = "create"
    /\ ~buckets[bName].exists
    /\ bExt < MaxExternal
    /\ bExt' = bExt + 1
    /\ buckets' = [buckets EXCEPT ![bName] =
                     [exists |-> TRUE, pab |-> FALSE, hasPolicy |-> FALSE, policy |-> <<>>]]
    /\ UNCHANGED <<bFn, bPc, bCaller, bRegion, bName, bPolicy, bSawAbsent, bRejected,
                   bCalls, bFaults, bInvocations, bRunRegion, bResolved>>
    /\ BucketFrame

BucketSteps ==
    \/ BucketIdentity
    \/ BucketHead
    \/ BucketHeadFails
    \/ BucketCreate
    \/ BucketCreateExists
    \/ BucketPutPab
    \/ BucketPutPabFails
    \/ BucketGetPolicy
    \/ BucketGetPolicyFails
    \/ BucketPutPolicy
    \/ BucketAppears

\* a run of main, configured for some region (line 1932), calls
\* create_s3_bucket(s3_client, sts_client) (line 1965: the region argument keeps
\* its default), or a caller invokes apply_bucket_policy (line 1966)
BucketInvoke ==
    /\ bPc \in {"idle", "done", "exit"}
    /\ bInvocations < MaxInvocations
    /\ \/ /\ BucketBegin("create_s3_bucket", "us-west-2", bName)
          /\ bRunRegion' \in Regions
       \/ /\ BucketBegin("apply_bucket_policy", bRegion,
                         BucketName(base_bucket_name, bCaller.account, "us-west-2"))
          /\ UNCHANGED bRunRegion
    /\ bCalls' = NoCalls
    /\ UNCHANGED <<buckets, bCaller, bExt, bFaults, bResolved>>
    /\ BucketFrame

BucketNext == BucketInvoke \/ BucketSteps

\* ------------------------------------------------------------ VPC network
VpcTag == "resourcely-vpc"
SgName == "resourcely-sg"

\* lines 1371-1385: prompt_for_vpc_cidr, for the line the operator types
CidrOptions == <<"10.0.0.0/16", "192.168.0.0/16", "172.31.0.0/16">>
CidrInputs == {"", "0", "1", "2", "3", "4", "x"}
Numeric == {"0", "1", "2", "3", "4"}
IntOf(c) == CASE c = "0" -> 0 [] c = "1" -> 1 [] c = "2" -> 2 [] c = "3" -> 3 [] c = "4" -> 4

prompt_for_vpc_cidr(choice) ==
    LET raised == choice # "" /\ choice \notin Numeric
        idx == IF choice = "" THEN 0 ELSE IF raised THEN 0 ELSE IntOf(choice) - 1
        invalid == raised \/ idx < 0 \/ idx >= Len(CidrOptions)
    IN CidrOptions[(IF invalid THEN 0 ELSE idx) + 1]

\* lines 1387-1398
compute_public_subnet_cidr(vpc_cidr) ==
    CASE vpc_cidr = "10.0.0.0/16" -> "10.0.1.0/24"
      [] vpc_cidr = "192.168.0.0/16" -> "192.168.1.0/24"
      [] vpc_cidr = "172.31.0.0/16" -> "172.31.0.0/16"
      [] OTHER -> "10.0.1.0/24"

\* line 1564: input(...).strip().lower()
YesNoInputs == {"y", "Y", "n", "x"}
Lower(c) == IF c = "Y" THEN "y" ELSE c

\* the describe calls, as filters over the remote lists
\* line 1418: describe_vpcs by tag:Name and cidr-block
VpcsTaggedWithCidr(cidr) == SelectSeq(ec2.vpcs, LAMBDA x : x.tagged /\ x.cidr = cidr)
\* line 1539: describe_vpcs by tag:Name
VpcsTagged == SelectSeq(ec2.vpcs, LAMBDA x : x.tagged)
\* line 1434: describe_subnets by vpc-id, tag:Name and cidr-block
SubnetsTaggedIn(vpc_id, cidr) ==
    SelectSeq(ec2.subnets, LAMBDA x : x.vpc = vpc_id /\ x.tagged /\ x.cidr = cidr)
\* line 1547: describe_subnets by vpc-id
SubnetsIn(vpc_id) == SelectSeq(ec2.subnets, LAMBDA x : x.vpc = vpc_id)
\* line 1452: describe_internet_gateways by attachment.vpc-id and tag:Name
IgwsTaggedOn(vpc_id) == SelectSeq(ec2.igws, LAMBDA x : x.vpc = vpc_id /\ x.tagged)
\* line 1467: describe_route_tables by vpc-id and tag:Name
RtsTaggedIn(vpc_id) == SelectSeq(ec2.rts, LAMBDA x : x.vpc = vpc_id /\ x.tagged)
\* line 1483: describe_security_groups by vpc-id and group-name
SgsNamedIn(vpc_id) == SelectSeq(ec2.sgs, LAMBDA x : x.vpc = vpc_id /\ x.name = SgName)
\* line 1554: describe_security_groups by vpc-id
SgsIn(vpc_id) == SelectSeq(ec2.sgs, LAMBDA x : x.vpc = vpc_id)

\* egress rules of a security group: IpProtocol and the CidrIp of its IpRanges
AllowAll == [IpProtocol |-> "-1", IpRanges |-> <<"0.0.0.0/0">>]
HttpsOut == [IpProtocol |-> "tcp", IpRanges |-> <<"0.0.0.0/0">>]
AllInside == [IpProtocol |-> "-1", IpRanges |-> <<"10.0.0.0/8">>]

\* lines 1500-1510: rule_exists, over the group's IpPermissionsEgress
RuleExistsAnyProtocol(existing_egress) ==
    \E i \in 1..Len(existing_egress) :
        \E j \in 1..Len(existing_egress[i].IpRanges) :
            existing_egress[i].IpRanges[j] = "0.0.0.0/0"
RuleExists(existing_egress) ==
    \E i \in 1..Len(existing_egress) :
        /\ existing_egress[i].IpProtocol = "-1"
        /\ \E j \in 1..Len(existing_egress[i].IpRanges) :
              existing_egress[i].IpRanges[j] = "0.0.0.0/0"

ById(list, id) == CHOOSE x \in Range(list) : x.id = id
SetById(list, id, new) == [i \in 1..Len(list) |-> IF list[i].id = id THEN new ELSE list[i]]
NextId(list) == Len(list) + 1

\* no line typed (yet) at a prompt
NotAsked == "?"

NoPrev == [fn |-> "none", yn |-> NotAsked, choice |-> NotAsked, aborted |-> FALSE,
           pc |-> "idle", vpc_id |-> 0, subnet_id |-> 0, rt_id |-> 0, sg_id |-> 0]

EmptyEc2 == [vpcs |-> <<>>, subnets |-> <<>>, igws |-> <<>>, rts |-> <<>>, sgs |-> <<>>]

\* lines 1771-1775: prompt_deployment_option, for the line the operator types
DeploymentInputs == {"", "1", "2", "3", "x"}
prompt_deployment_option(choice) == IF choice \notin {"1", "2"} THEN "exit" ELSE choice

\* lines 1300, 1327, 1353: what the operator types at a list prompt, split at
\* the commas, each part stripped
SelectionTokens == {"", "0", "1", "2", "x"}
VpcChoices == SelectionTokens
ListInputs == {<<t>> : t \in SelectionTokens} \cup {<<t, u>> : t, u \in SelectionTokens}

\* lines 1301-1307: int(vpc_choice) - 1 against the n listed VPCs; 0: fatal
ParseChoice(vpc_choice, n) ==
    LET raised == vpc_choice \notin Numeric
        vpc_index == IF raised THEN 0 ELSE IntOf(vpc_choice) - 1
    IN IF raised \/ vpc_index < 0 \/ vpc_index >= n THEN 0 ELSE vpc_index + 1

\* lines 1328-1334 and 1354-1360: the indices typed at a list prompt against
\* the n listed items; <<>>: fatal.  Parts that are empty are skipped.
ParseSelectionLenient(input, n) ==
    LET parts == SelectSeq(input, LAMBDA x : x \in Numeric /\ IntOf(x) \in 1..n)
    IN IF parts = <<>> THEN <<1>> ELSE [i \in 1..Len(parts) |-> IntOf(parts[i])]
ParseSelection(input, n) ==
    LET parts == SelectSeq(input, LAMBDA x : x # "")
        raised == \E i \in 1..Len(parts) : parts[i] \notin Numeric
        indices == [i \in 1..Len(parts) |-> IF raised THEN 0 ELSE IntOf(parts[i]) - 1]
        invalid == \/ raised
                   \/ indices = <<>>
                   \/ \E i \in 1..Len(indices) : indices[i] < 0 \/ indices[i] >= n
    IN IF invalid THEN <<>> ELSE [i \in 1..Len(indices) |-> indices[i] + 1]

NetLocalsInit ==
    net = [fn |-> "none", pc |-> "idle", yn |-> NotAsked, choice |-> NotAsked,
           vpc_cidr |-> "", subnet_cidr |-> "",
           vpc_id |-> 0, subnet_id |-> 0, igw_id |-> 0, rt_id |-> 0, sg_id |-> 0,
           run |-> 0, aborts |-> 0, aborted |-> FALSE, prev |-> NoPrev,
           option |-> NotAsked, vpc_choice |-> NotAsked,
           subnet_input |-> <<NotAsked>>, sg_input |-> <<NotAsked>>,
           chosen_subnets |-> <<>>, chosen_sgs |-> <<>>, before |-> EmptyEc2,
           authorized |-> <<>>]

\* an account with one VPC of someone else's: a subnet and the default group
ForeignEc2 ==
    [vpcs |-> <<[id |-> 1, cidr |-> "10.0.0.0/16", tagged |-> FALSE]>>,
     subnets |-> <<[id |-> 1, vpc |-> 1, cidr |-> "10.0.1.0/24", tagged |-> FALSE]>>,
     igws |-> <<>>,
     rts |-> <<>>,
     sgs |-> <<[id |-> 1, vpc |-> 1, name |-> "default", egress |-> <<AllowAll>>]>>]

NetIdle == ec2 = EmptyEc2 /\ NetLocalsInit

NetInit == ec2 \in {EmptyEc2, ForeignEc2} /\ NetLocalsInit

NetInFlight == net.pc \notin {"idle", "done", "exit"}

\* the operator starts the deployment step of main (lines 2006-2014), which
\* calls select_or_create_vpc_network_config; create_new_vpc_and_sg is also
\* callable by itself
NetInvoke ==
    /\ ~NetInFlight
    /\ net.run < MaxNetRuns
    /\ \E fn \in {"main", "create_new_vpc_and_sg"} :
          net' = [net EXCEPT
                    !.fn = fn,
                    !.pc = IF fn = "create_new_vpc_and_sg" THEN "prompt" ELSE "prompt_option",
                    !.option = NotAsked, !.vpc_choice = NotAsked,
                    !.subnet_input = <<NotAsked>>, !.sg_input = <<NotAsked>>,
                    !.chosen_subnets = <<>>, !.chosen_sgs = <<>>, !.before = ec2,
                    !.yn = NotAsked, !.choice = NotAsked, !.vpc_cidr = "", !.subnet_cidr = "",
                    !.vpc_id = 0, !.subnet_id = 0, !.igw_id = 0, !.rt_id = 0, !.sg_id = 0,
                    !.run = @ + 1, !.aborted = FALSE,
                    !.prev = [fn |-> net.fn, yn |-> net.yn, choice |-> net.choice,
                              aborted |-> net.aborted, pc |-> net.pc,
                              vpc_id |-> net.vpc_id, subnet_id |-> net.subnet_id,
                              rt_id |-> net.rt_id, sg_id |-> net.sg_id]]
    /\ UNCHANGED ec2
    /\ NetFrame

\* the run is cut short after the remote calls made so far (the process is
\* killed, or the next remote call raises)
NetAbort ==
    /\ NetInFlight
    /\ net.aborts < MaxAborts
    /\ net' = [net EXCEPT !.pc = "exit", !.aborted = TRUE, !.aborts = @ + 1]
    /\ UNCHANGED ec2
    /\ NetFrame

\* lines 2006-2014: the operator types the deployment option; option 1 runs
\* the container locally, option 2 goes on to the network step
PromptOption ==
    /\ net.pc = "prompt_option"
    /\ \E choice \in DeploymentInputs :
          LET option == prompt_deployment_option(choice)
          IN net' = [net EXCEPT
                       !.option = choice,
                       !.fn = IF option = "2" THEN "select_or_create_vpc_network_config" ELSE @,
                       !.pc = CASE option = "exit" -> "exit"
                                [] option = "1" -> "done"
                                [] option = "2" -> "select_describe_vpcs"]
    /\ UNCHANGED ec2
    /\ NetFrame

\* lines 1281-1310 of select_vpc_network_config: describe_vpcs, the list, the
\* operator's choice
ManualVpcs ==
    /\ net.pc = "select_manual"
    /\ IF Len(ec2.vpcs) = 0
       THEN net' = [net EXCEPT !.pc = "exit"]
       ELSE \E vpc_choice \in VpcChoices :
               LET pos == ParseChoice(vpc_choice, Len(ec2.vpcs))
               IN net' = [net EXCEPT
                            !.vpc_choice = vpc_choice,
                            !.vpc_id = IF pos = 0 THEN @ ELSE ec2.vpcs[pos].id,
                            !.pc = IF pos = 0 THEN "exit" ELSE "manual_subnets"]
    /\ UNCHANGED ec2
    /\ NetFrame

\* lines 1313-1336: describe_subnets of the selected VPC, the list, the choice
ManualSubnets ==
    /\ net.pc = "manual_subnets"
    /\ LET subnets == SubnetsIn(net.vpc_id)
       IN IF Len(subnets) = 0
          THEN net' = [net EXCEPT !.pc = "exit"]
          ELSE \E subnet_input \in ListInputs :
                  LET picked == ParseSelection(subnet_input, Len(subnets))
                  IN net' = [net EXCEPT
                               !.subnet_input = subnet_input,
                               !.chosen_subnets = [i \in 1..Len(picked) |-> subnets[picked[i]].id],
                               !.pc = IF picked = <<>> THEN "exit" ELSE "manual_sgs"]
    /\ UNCHANGED ec2
    /\ NetFrame

\* lines 1339-1364: describe_security_groups of the selected VPC, the list,
\* the choice, the return
ManualSgs ==
    /\ net.pc = "manual_sgs"
    /\ LET security_groups == SgsIn(net.vpc_id)
       IN IF Len(security_groups) = 0
          THEN net' = [net EXCEPT !.pc = "exit"]
          ELSE \E sg_input \in ListInputs :
                  LET picked == ParseSelection(sg_input, Len(security_groups))
                  IN net' = [net EXCEPT
                               !.sg_input = sg_input,
                               !.chosen_sgs = [i \in 1..Len(picked) |-> security_groups[picked[i]].id],
                               !.pc = IF picked = <<>> THEN "exit" ELSE "done"]
    /\ UNCHANGED ec2
    /\ NetFrame

\* lines 1538-1545 and 1564-1569: describe_vpcs by tag; without a tagged VPC
\* the operator is asked whether to create one
SelectDescribeVpcs ==
    /\ net.pc = "select_describe_vpcs"
    /\ IF Len(VpcsTagged) > 0
       THEN net' = [net EXCEPT !.vpc_id = VpcsTagged[1].id, !.pc = "reuse_subnets"]
       ELSE \E yn \in YesNoInputs :
               net' = [net EXCEPT !.yn = yn,
                                  !.pc = IF Lower(yn) = "y" THEN "prompt" ELSE "select_manual"]
    /\ UNCHANGED ec2
    /\ NetFrame

\* lines 1547-1552: describe_subnets of the reused VPC
ReuseSubnets ==
    /\ net.pc = "reuse_subnets"
    /\ LET subnets == SubnetsIn(net.vpc_id)
       IN IF Len(subnets) = 0
          THEN net' = [net EXCEPT !.pc = "exit"]
          ELSE net' = [net EXCEPT !.subnet_id = subnets[1].id, !.pc = "reuse_sgs"]
    /\ UNCHANGED ec2
    /\ NetFrame

\* lines 1554-1561: describe_security_groups of the reused VPC, then return
ReuseSgs ==
    /\ net.pc = "reuse_sgs"
    /\ LET sgs == SgsIn(net.vpc_id)
       IN IF Len(sgs) = 0
          THEN net' = [net EXCEPT !.pc = "exit"]
          ELSE net' = [net EXCEPT !.sg_id = sgs[1].id, !.pc = "done"]
    /\ UNCHANGED ec2
    /\ NetFrame

\* lines 1414-1415: the operator types a CIDR option
PromptCidr ==
    /\ net.pc = "prompt"
    /\ \E choice \in CidrInputs :
          net' = [net EXCEPT !.choice = choice,
                             !.vpc_cidr = prompt_for_vpc_cidr(choice),
                             !.subnet_cidr = compute_public_subnet_cidr(prompt_for_vpc_cidr(choice)),
                             !.pc = "describe_vpcs"]
    /\ UNCHANGED ec2
    /\ NetFrame

\* lines 1418-1424
DescribeVpcs ==
    /\ net.pc = "describe_vpcs"
    /\ LET vpcs == VpcsTaggedWithCidr(net.vpc_cidr)
       IN IF Len(vpcs) > 0
          THEN net' = [net EXCEPT !.vpc_id = vpcs[1].id, !.pc = "describe_subnets"]
          ELSE net' = [net EXCEPT !.pc = "create_vpc"]
    /\ UNCHANGED ec2
    /\ NetFrame

\* line 1426: create_vpc; the remote gives every VPC a default security group
CreateVpc ==
    /\ net.pc = "create_vpc"
    /\ LET id == NextId(ec2.vpcs)
       IN /\ ec2' = [ec2 EXCEPT
                       !.vpcs = Append(@, [id |-> id, cidr |-> net.vpc_cidr, tagged |-> FALSE]),
                       !.sgs = Append(@, [id |-> NextId(ec2.sgs), vpc |-> id,
                                          name |-> "default", egress |-> <<AllowAll>>])]
          /\ net' = [net EXCEPT !.vpc_id = id, !.pc = "tag_vpc"]
    /\ NetFrame

\* lines 1428-1431: create_tags on the VPC, then the vpc_available waiter
TagVpc ==
    /\ net.pc = "tag_vpc"
    /\ ec2' = [ec2 EXCEPT !.vpcs = SetById(@, net.vpc_id,
                                           [ById(@, net.vpc_id) EXCEPT !.tagged = TRUE])]
    /\ net' = [net EXCEPT !.pc = "describe_subnets"]
    /\ NetFrame

\* lines 1434-1441
DescribeSubnets ==
    /\ net.pc = "describe_subnets"
    /\ LET subnets == SubnetsTaggedIn(net.vpc_id, net.subnet_cidr)
       IN IF Len(subnets) > 0
          THEN net' = [net EXCEPT !.subnet_id = subnets[1].id, !.pc = "describe_igws"]
          ELSE net' = [net EXCEPT !.pc = "create_subnet"]
    /\ UNCHANGED ec2
    /\ NetFrame

\* lines 1444-1447: describe_availability_zones and create_subnet; the remote
\* rejects a CIDR that a subnet of the VPC already has (uncaught: the run ends)
CreateSubnet ==
    /\ net.pc = "create_subnet"
    /\ IF \E i \in 1..Len(ec2.subnets) :
             ec2.subnets[i].vpc = net.vpc_id /\ ec2.subnets[i].cidr = net.subnet_cidr
       THEN net' = [net EXCEPT !.pc = "exit"] /\ UNCHANGED ec2
       ELSE LET id == NextId(ec2.subnets)
            IN /\ ec2' = [ec2 EXCEPT !.subnets = Append(@, [id |-> id, vpc |-> net.vpc_id,
                                         cidr |-> net.subnet_cidr, tagged |-> FALSE])]
               /\ net' = [net EXCEPT !.subnet_id = id, !.pc = "tag_subnet"]
    /\ NetFrame

\* line 1448
TagSubnet ==
    /\ net.pc = "tag_subnet"
    /\ ec2' = [ec2 EXCEPT !.subnets = SetById(@, net.subnet_id,
                                              [ById(@, net.subnet_id) EXCEPT !.tagged = TRUE])]
    /\ net' = [net EXCEPT !.pc = "describe_igws"]
    /\ NetFrame

\* lines 1452-1458
DescribeIgws ==
    /\ net.pc = "describe_igws"
    /\ LET igws == IgwsTaggedOn(net.vpc_id)
       IN IF Len(igws) > 0
          THEN net' = [net EXCEPT !.igw_id = igws[1].id, !.pc = "describe_rts"]
          ELSE net' = [net EXCEPT !.pc = "create_igw"]
    /\ UNCHANGED ec2
    /\ NetFrame

\* line 1460
CreateIgw ==
    /\ net.pc = "create_igw"
    /\ LET id == NextId(ec2.igws)
       IN /\ ec2' = [ec2 EXCEPT !.igws = Append(@, [id |-> id, vpc |-> 0, tagged |-> FALSE])]
          /\ net' = [net EXCEPT !.igw_id = id, !.pc = "attach_igw"]
    /\ NetFrame

\* line 1462: attach_internet_gateway; the remote rejects a second gateway
\* on a VPC (uncaught: the run ends)
AttachIgw ==
    /\ net.pc = "attach_igw"
    /\ IF \E i \in 1..Len(ec2.igws) : ec2.igws[i].vpc = net.vpc_id
       THEN net' = [net EXCEPT !.pc = "exit"] /\ UNCHANGED ec2
       ELSE /\ ec2' = [ec2 EXCEPT !.igws = SetById(@, net.igw_id,
                                     [ById(@, net.igw_id) EXCEPT !.vpc = net.vpc_id])]
            /\ net' = [net EXCEPT !.pc = "tag_igw"]
    /\ NetFrame

\* line 1463
TagIgw ==
    /\ net.pc = "tag_igw"
    /\ ec2' = [ec2 EXCEPT !.igws = SetById(@, net.igw_id,
                                           [ById(@, net.igw_id) EXCEPT !.tagged = TRUE])]
    /\ net' = [net EXCEPT !.pc = "describe_rts"]
    /\ NetFrame

\* lines 1467-1473
DescribeRts ==
    /\ net.pc = "describe_rts"
    /\ LET rts == RtsTaggedIn(net.vpc_id)
       IN IF Len(rts) > 0
          THEN net' = [net EXCEPT !.rt_id = rts[1].id, !.pc = "describe_sgs"]
          ELSE net' = [net EXCEPT !.pc = "create_rt"]
    /\ UNCHANGED ec2
    /\ NetFrame

\* line 1475
CreateRt ==
    /\ net.pc = "create_rt"
    /\ LET id == NextId(ec2.rts)
       IN /\ ec2' = [ec2 EXCEPT !.rts = Append(@, [id |-> id, vpc |-> net.vpc_id,
                                    tagged |-> FALSE, route |-> 0, assoc |-> 0])]
          /\ net' = [net EXCEPT !.rt_id = id, !.pc = "tag_rt"]
    /\ NetFrame

\* line 1477
TagRt ==
    /\ net.pc = "tag_rt"
    /\ ec2' = [ec2 EXCEPT !.rts = SetById(@, net.rt_id,
                                          [ById(@, net.rt_id) EXCEPT !.tagged = TRUE])]
    /\ net' = [net EXCEPT !.pc = "create_route"]
    /\ NetFrame

\* line 1478: create_route 0.0.0.0/0 via igw_id
CreateRoute ==
    /\ net.pc = "create_route"
    /\ ec2' = [ec2 EXCEPT !.rts = SetById(@, net.rt_id,
                                          [ById(@, net.rt_id) EXCEPT !.route = net.igw_id])]
    /\ net' = [net EXCEPT !.pc = "associate_rt"]
    /\ NetFrame

\* line 1479
AssociateRt ==
    /\ net.pc = "associate_rt"
    /\ ec2' = [ec2 EXCEPT !.rts = SetById(@, net.rt_id,
                                          [ById(@, net.rt_id) EXCEPT !.assoc = net.subnet_id])]
    /\ net' = [net EXCEPT !.pc = "describe_sgs"]
    /\ NetFrame

\* lines 1483-1489
DescribeSgs ==
    /\ net.pc = "describe_sgs"
    /\ LET sgs == SgsNamedIn(net.vpc_id)
       IN IF Len(sgs) > 0
          THEN net' = [net EXCEPT !.sg_id = sgs[1].id, !.pc = "describe_sg_egress"]
          ELSE net' = [net EXCEPT !.pc = "create_sg"]
    /\ UNCHANGED ec2
    /\ NetFrame

\* lines 1491-1494: create_security_group; the egress rules the new group
\* carries from the start are the remote's choice
CreateSg ==
    /\ net.pc = "create_sg"
    /\ LET id == NextId(ec2.sgs)
       IN /\ \E e \in {<<AllowAll>>, <<HttpsOut, AllInside>>} :
                ec2' = [ec2 EXCEPT !.sgs = Append(@, [id |-> id, vpc |-> net.vpc_id,
                                       name |-> SgName, egress |-> e])]
          /\ net' = [net EXCEPT !.sg_id = id, !.pc = "describe_sg_egress"]
    /\ NetFrame

\* lines 1499-1510 and 1519-1525: describe the group's egress rules
DescribeSgEgress ==
    /\ net.pc = "describe_sg_egress"
    /\ net' = [net EXCEPT !.pc = IF RuleExists(ById(ec2.sgs, net.sg_id).egress)
                                 THEN "done" ELSE "authorize_egress"]
    /\ UNCHANGED ec2
    /\ NetFrame

\* lines 1511-1518, then the return of line 1525
AuthorizeEgress ==
    /\ net.pc = "authorize_egress"
    /\ ec2' = [ec2 EXCEPT !.sgs = SetById(@, net.sg_id,
                                          [ById(@, net.sg_id) EXCEPT
                                              !.egress = Append(@, AllowAll)])]
    /\ net' = [net EXCEPT !.pc = "done", !.authorized = Append(@, net.sg_id)]
    /\ NetFrame

NetNext ==
    \/ NetInvoke
    \/ NetAbort
    \/ PromptOption
    \/ ManualVpcs
    \/ ManualSubnets
    \/ ManualSgs
    \/ SelectDescribeVpcs
    \/ ReuseSubnets
    \/ ReuseSgs
    \/ PromptCidr
    \/ DescribeVpcs
    \/ CreateVpc
    \/ TagVpc
    \/ DescribeSubnets
    \/ CreateSubnet
    \/ TagSubnet
    \/ DescribeIgws
    \/ CreateIgw
    \/ AttachIgw
    \/ TagIgw
    \/ DescribeRts
    \/ CreateRt
    \/ TagRt
    \/ CreateRoute
    \/ AssociateRt
    \/ DescribeSgs
    \/ CreateSg
    \/ DescribeSgEgress
    \/ AuthorizeEgress

\* the steps of the network step once it is started
NetSteps ==
    \/ PromptOption
    \/ ManualVpcs
    \/ ManualSubnets
    \/ ManualSgs
    \/ SelectDescribeVpcs
    \/ ReuseSubnets
    \/ ReuseSgs
    \/ PromptCidr
    \/ DescribeVpcs
    \/ CreateVpc
    \/ TagVpc
    \/ DescribeSubnets
    \/ CreateSubnet
    \/ TagSubnet
    \/ DescribeIgws
    \/ CreateIgw
    \/ AttachIgw
    \/ TagIgw
    \/ DescribeRts
    \/ CreateRt
    \/ TagRt
    \/ CreateRoute
    \/ AssociateRt
    \/ DescribeSgs
    \/ CreateSg
    \/ DescribeSgEgress
    \/ AuthorizeEgress

\* lines 1364, 1525, 1561: the network_config the network step returned
ReturnedNetworkConfig ==
    IF net.vpc_choice # NotAsked
    THEN [subnets |-> net.chosen_subnets, securityGroups |-> net.chosen_sgs]
    ELSE [subnets |-> <<net.subnet_id>>, securityGroups |-> <<net.sg_id>>]

\* --------------------------------------------------------------- wait loops
\* What one evaluation of a wait's predicate finds, for the remote answer s.

PlanJobName == "plan_and_apply / plan-and-apply-app-dev-us-west-2 / Plan Sandbox"

\* lines 819-829: the loop over the jobs of the run
ScanJobsForSuccess(jobs) ==
    IF \E i \in 1..Len(jobs) :
          /\ jobs[i].name = PlanJobName
          /\ jobs[i].status = "completed"
          /\ jobs[i].conclusion = "success"
    THEN "Success" ELSE "Pending"
RECURSIVE ScanJobs(_)
ScanJobs(jobs) ==
    IF jobs = <<>> THEN "Pending"
    ELSE LET job == Head(jobs)
         IN IF job.name = PlanJobName /\ job.status = "completed" /\ job.conclusion = "success"
            THEN "Success"
            ELSE IF job.name = PlanJobName /\ job.status = "completed"
                 THEN "Failure"
                 ELSE ScanJobs(Tail(jobs))

\* lines 802-832: one pass of wait_for_plan_job_success
PlanJobEval(s) ==
    IF s.code # 200 THEN "Error"
    ELSE IF s.runs = <<>> THEN "Pending"
    ELSE IF s.jcode # 200 THEN "Error"
    ELSE ScanJobs(s.jobs)

ValidConfig == "TF_CONFIG_SCAN_RESULT_VALID_CONFIG"

\* lines 898-915: one pass of poll_yaml_config_diagnostics; s.repo is the
\* record repos.get(fqdn_repo_url), <<>> when the key is absent
YamlEvalIgnoreErrors(s) ==
    IF s.code # 200 THEN "Pending"
    ELSE IF s.repo = <<>> THEN "Pending"
    ELSE IF s.repo[1].result = ValidConfig THEN "Success"
    ELSE "Pending"
YamlEval(s) ==
    IF s.code # 200 THEN "Pending"
    ELSE IF s.repo = <<>> THEN "Pending"
    ELSE IF s.repo[1].result = ValidConfig /\ s.repo[1].errors = <<>> THEN "Success"
    ELSE "Pending"

StatusSuccess == "DIAGNOSTIC_STATUS_SUCCESS"
StatusFailure == "DIAGNOSTIC_STATUS_FAILURE"
StatusPending == "DIAGNOSTIC_STATUS_PENDING"
GitSources == {"DIAGNOSTIC_SOURCE_GITLAB", "DIAGNOSTIC_SOURCE_GITHUB"}

\* lines 941-960: one pass of poll_diagnostics
DiagnosticsEvalSomeCheck(s) ==
    IF s.code # 200 THEN "Pending"
    ELSE IF \E i \in 1..Len(s.diagnostics) :
               /\ s.diagnostics[i].source \in GitSources
               /\ \E j \in 1..Len(s.diagnostics[i].checks) :
                     s.diagnostics[i].checks[j].status = StatusSuccess
         THEN "Success"
         ELSE "Pending"
DiagnosticsEval(s) ==
    IF s.code # 200 THEN "Pending"
    ELSE IF \E i \in 1..Len(s.diagnostics) :
               /\ s.diagnostics[i].source \in GitSources
               /\ \A j \in 1..Len(s.diagnostics[i].checks) :
                     s.diagnostics[i].checks[j].status = StatusSuccess
         THEN "Success"
         ELSE "Pending"

AgentRegistered == "DIAGNOSTIC_TYPE_CAMPAIGNS_AGENT_REGISTERED"
AgentReachable == "DIAGNOSTIC_TYPE_CAMPAIGNS_AGENT_REACHABLE"
AgentEvaluations == "DIAGNOSTIC_TYPE_CAMPAIGNS_AGENT_EVALUATIONS"

\* lines 1866-1870
required_checks == {AgentRegistered, AgentReachable, AgentEvaluations}

\* the value None of a check that was not reported
None == "None"

\* lines 1883-1890: check_statuses after the checks seen so far
RECURSIVE CheckStatuses(_, _)
CheckStatuses(statuses, checks) ==
    IF checks = <<>> THEN statuses
    ELSE LET check == Head(checks)
             next == IF check.type \in required_checks /\ statuses[check.type] # StatusSuccess
                     THEN [statuses EXCEPT ![check.type] = check.status]
                     ELSE statuses
         IN CheckStatuses(next, Tail(checks))

\* the checks of all diagnostics, in the order the two loops visit them
RECURSIVE AllChecks(_)
AllChecks(diagnostics) ==
    IF diagnostics = <<>> THEN <<>>
    ELSE Head(diagnostics).checks \o AllChecks(Tail(diagnostics))

\* lines 1873-1903: one pass of poll_agent_diagnostics
AgentEvalAbsentOk(s) ==
    IF s.code # 200 THEN "Error"
    ELSE LET check_statuses ==
                 CheckStatuses([k \in required_checks |-> None], AllChecks(s.diagnostics))
         IN IF \A k \in required_checks : check_statuses[k] \in {StatusSuccess, None}
            THEN "Success"
            ELSE "Pending"
AgentEval(s) ==
    IF s.code # 200 THEN "Error"
    ELSE LET check_statuses ==
                 CheckStatuses([k \in required_checks |-> None], AllChecks(s.diagnostics))
         IN IF \A k \in required_checks : check_statuses[k] = StatusSuccess
            THEN "Success"
            ELSE "Pending"

\* lines 1733-1755: one pass of wait_for_ecs_service_running
EcsEvalNoTasksFatal(s) ==
    IF ~s.list_ok \/ s.tasks = <<>> \/ ~s.describe_ok THEN "Error"
    ELSE IF \E i \in 1..Len(s.tasks) : s.tasks[i] = "RUNNING" THEN "Success"
    ELSE "Pending"
EcsEvalStoppedFails(s) ==
    IF ~s.list_ok THEN "Error"
    ELSE IF s.tasks = <<>> THEN "Pending"
    ELSE IF ~s.describe_ok THEN "Error"
    ELSE IF \E i \in 1..Len(s.tasks) : s.tasks[i] = "RUNNING" THEN "Success"
    ELSE IF \E i \in 1..Len(s.tasks) : s.tasks[i] = "STOPPED" THEN "Failure"
    ELSE "Pending"
EcsEval(s) ==
    IF ~s.list_ok THEN "Error"
    ELSE IF s.tasks = <<>> THEN "Pending"
    ELSE IF ~s.describe_ok THEN "Error"
    ELSE IF \E i \in 1..Len(s.tasks) : s.tasks[i] = "RUNNING" THEN "Success"
    ELSE "Pending"

\* lines 375-381: one pass of the role wait; other ClientErrors reach line 384
RoleWaitEval(s) ==
    IF s.answer = "role" THEN "Success"
    ELSE IF s.answer = "NoSuchEntity" THEN "Pending"
    ELSE "Error"

\* the remote answers an evaluation may get
Job(name, status, conclusion) == [name |-> name, status |-> status, conclusion |-> conclusion]

PlanSnapshots ==
    { [code |-> 500, runs |-> <<>>, jcode |-> 200, jobs |-> <<>>],
      [code |-> 200, runs |-> <<>>, jcode |-> 200, jobs |-> <<>>],
      [code |-> 200, runs |-> <<1>>, jcode |-> 500, jobs |-> <<>>],
      [code |-> 200, runs |-> <<1>>, jcode |-> 200,
       jobs |-> <<Job("lint", "completed", "failure")>>],
      [code |-> 200, runs |-> <<1>>, jcode |-> 200,
       jobs |-> <<Job("lint", "completed", "success"), Job(PlanJobName, "in_progress", "")>>],
      [code |-> 200, runs |-> <<1>>, jcode |-> 200,
       jobs |-> <<Job("lint", "completed", "failure"), Job(PlanJobName, "completed", "success")>>],
      [code |-> 200, runs |-> <<1>>, jcode |-> 200,
       jobs |-> <<Job(PlanJobName, "completed", "failure")>>],
      [code |-> 200, runs |-> <<1>>, jcode |-> 200,
       jobs |-> <<Job(PlanJobName, "completed", "cancelled")>>] }

YamlSnapshots ==
    { [code |-> 500, repo |-> <<>>],
      [code |-> 200, repo |-> <<>>],
      [code |-> 200, repo |-> <<[result |-> ValidConfig, errors |-> <<>>]>>],
      [code |-> 200, repo |-> <<[result |-> ValidConfig, errors |-> <<"e">>]>>],
      [code |-> 200, repo |-> <<[result |-> "TF_CONFIG_SCAN_RESULT_INVALID_CONFIG",
                                 errors |-> <<>>]>>] }

Check(type, status) == [type |-> type, status |-> status]

DiagnosticsSnapshots ==
    { [code |-> 500, diagnostics |-> <<>>],
      [code |-> 200, diagnostics |-> <<>>],
      [code |-> 200, diagnostics |->
         <<[source |-> "DIAGNOSTIC_SOURCE_GITHUB",
            checks |-> <<Check("a", StatusSuccess), Check("b", StatusSuccess)>>]>>],
      [code |-> 200, diagnostics |->
         <<[source |-> "DIAGNOSTIC_SOURCE_GITHUB",
            checks |-> <<Check("a", StatusSuccess), Check("b", StatusFailure)>>]>>],
      [code |-> 200, diagnostics |->
         <<[source |-> "DIAGNOSTIC_SOURCE_AGENT", checks |-> <<Check("a", StatusSuccess)>>],
           [source |-> "DIAGNOSTIC_SOURCE_GITLAB", checks |-> <<>>]>>],
      [code |-> 200, diagnostics |->
         <<[source |-> "DIAGNOSTIC_SOURCE_AGENT", checks |-> <<Check("a", StatusSuccess)>>]>>],
      [code |-> 200, diagnostics |->
         <<[source |-> "DIAGNOSTIC_SOURCE_GITHUB", checks |-> <<Check("a", StatusPending)>>],
           [source |-> "DIAGNOSTIC_SOURCE_GITLAB", checks |-> <<Check("a", StatusSuccess)>>]>>] }

AgentSnapshots ==
    { [code |-> 500, diagnostics |-> <<>>],
      [code |-> 200, diagnostics |-> <<>>],
      [code |-> 200, diagnostics |->
         <<[checks |-> <<Check(AgentRegistered, StatusSuccess)>>]>>],
      [code |-> 200, diagnostics |->
         <<[checks |-> <<Check(AgentRegistered, StatusSuccess),
                         Check(AgentReachable, StatusFailure),
                         Check(AgentEvaluations, StatusSuccess)>>]>>],
      [code |-> 200, diagnostics |->
         <<[checks |-> <<Check(AgentRegistered, StatusSuccess), Check("other", StatusFailure)>>],
           [checks |-> <<Check(AgentReachable, StatusPending),
                         Check(AgentReachable, StatusSuccess),
                         Check(AgentEvaluations, StatusSuccess),
                         Check(AgentEvaluations, StatusFailure)>>]>>] }

EcsSnapshots ==
    { [list_ok |-> FALSE, describe_ok |-> TRUE, tasks |-> <<>>],
      [list_ok |-> TRUE, describe_ok |-> TRUE, tasks |-> <<>>],
      [list_ok |-> TRUE, describe_ok |-> FALSE, tasks |-> <<"PENDING">>],
      [list_ok |-> TRUE, describe_ok |-> TRUE, tasks |-> <<"PENDING">>],
      [list_ok |-> TRUE, describe_ok |-> TRUE, tasks |-> <<"STOPPED", "RUNNING">>],
      [list_ok |-> TRUE, describe_ok |-> TRUE, tasks |-> <<"STOPPED">>] }

RoleWaitSnapshots ==
    { [answer |-> "role"], [answer |-> "NoSuchEntity"], [answer |-> "AccessDenied"] }

TimeBounded == {"wait_for_plan_job_success", "wait_for_ecs_service_running"}
AttemptCounted == {"poll_yaml_config_diagnostics", "poll_diagnostics", "poll_agent_diagnostics"}
RoleWaitLoop == "create_oidc_role"
WaitFns == TimeBounded \cup AttemptCounted \cup {RoleWaitLoop}

Snapshots(fn) ==
    CASE fn = "wait_for_plan_job_success" -> PlanSnapshots
      [] fn = "wait_for_ecs_service_running" -> EcsSnapshots
      [] fn = "poll_yaml_config_diagnostics" -> YamlSnapshots
      [] fn = "poll_diagnostics" -> DiagnosticsSnapshots
      [] fn = "poll_agent_diagnostics" -> AgentSnapshots
      [] fn = RoleWaitLoop -> RoleWaitSnapshots

Evaluate(fn, s) ==
    CASE fn = "wait_for_plan_job_success" -> PlanJobEval(s)
      [] fn = "wait_for_ecs_service_running" -> EcsEval(s)
      [] fn = "poll_yaml_config_diagnostics" -> YamlEval(s)
      [] fn = "poll_diagnostics" -> DiagnosticsEval(s)
      [] fn = "poll_agent_diagnostics" -> AgentEval(s)
      [] fn = RoleWaitLoop -> RoleWaitEval(s)

\* the arguments of a wait, in units of the clock: timeout and poll_interval
\* of the time-bounded waits, max_attempts and interval of the others, the
\* range(10) and sleep(3) of the role wait
Budget(timeout, interval, max_attempts) ==
    [timeout |-> timeout, interval |-> interval, max_attempts |-> max_attempts]

Budgets(fn) ==
    IF fn \in TimeBounded THEN {Budget(5, 1, 0), Budget(5, 2, 0), Budget(4, 2, 0), Budget(0, 1, 0)}
    ELSE IF fn \in AttemptCounted THEN {Budget(0, 5, 5), Budget(0, 1, 5), Budget(0, 2, 3), Budget(0, 2, 1)}
    ELSE {Budget(0, 3, RoleWaitAttempts)}

Executions == {1, 2}

\* what time.time() reads when an execution starts
StartClock(p) == IF p = 1 THEN 0 ELSE 7

NoWait == [pc |-> "idle", start_time |-> 0, clock |-> 0, attempt |-> 0,
           evals |-> 0, sleeps |-> 0, trace |-> <<>>, last |-> "", outcome |-> ""]

PollIdle ==
    /\ wFn = "none"
    /\ wBudget = Budget(0, 0, 0)
    /\ snaps = <<>>
    /\ poll = [p \in Executions |-> NoWait]

PollInit ==
    /\ wFn \in WaitFns
    /\ wBudget \in Budgets(wFn)
    /\ snaps = <<>>
    /\ poll = [p \in Executions |-> [NoWait EXCEPT !.clock = StartClock(p)]]

PollFinished(p) == poll[p].pc \in {"done", "exit"}

\* time.time() - start_time
ElapsedSinceEpoch(now, start_time) == now
Elapsed(now, start_time) == now - start_time

\* the loop condition: lines 800, 1732 (time-bounded), 897, 940, 1872
\* (attempt-counted), 374 (role wait)
ContinueLoopOnceMore(fn, budget, e) ==
    IF fn \in TimeBounded
    THEN Elapsed(e.clock, e.start_time) <= budget.timeout
    ELSE e.attempt <= budget.max_attempts
ContinueLoop(fn, budget, e) ==
    IF fn \in TimeBounded
    THEN Elapsed(e.clock, e.start_time) < budget.timeout
    ELSE e.attempt < budget.max_attempts

\* where a pass that found Pending goes: the time-bounded waits and the role
\* wait sleep; the attempt-counted polls sleep unless the attempts are used up
AfterPendingNoSleep(fn, budget, attempt) == "test"
AfterPendingAlwaysSleep(fn, budget, attempt) == "sleep"
AfterPending(fn, budget, attempt) ==
    IF fn \in AttemptCounted /\ ~(attempt < budget.max_attempts) THEN "test" ELSE "sleep"

\* where a pass goes on what it found
AfterEval(fn, budget, attempt, found) ==
    CASE found = "Success" -> "done"
      [] found = "Pending" -> AfterPending(fn, budget, attempt)
      [] OTHER -> "exit"

OutcomeOf(found) ==
    CASE found = "Success" -> "success"
      [] found = "Failure" -> "failure"
      [] found = "Error" -> "error"
      [] OTHER -> ""

\* an execution of the wait begins: start_time = time.time(), attempt = 0;
\* the second begins when the first has ended
PollStart(p) ==
    /\ poll[p].pc = "idle"
    /\ \A q \in Executions : q < p => PollFinished(q)
    /\ poll' = [poll EXCEPT ![p].pc = "test", ![p].start_time = poll[p].clock]
    /\ UNCHANGED <<wFn, wBudget, snaps>>
    /\ PollFrame

\* the loop condition is tested; the loop left this way ends in the timeout
\* message and sys.exit(1)
PollTest(p) ==
    /\ poll[p].pc = "test"
    /\ IF ContinueLoop(wFn, wBudget, poll[p])
       THEN poll' = [poll EXCEPT ![p].pc = "eval"]
       ELSE poll' = [poll EXCEPT ![p].pc = "exit", ![p].outcome = "timeout"]
    /\ UNCHANGED <<wFn, wBudget, snaps>>
    /\ PollFrame

\* one pass of the loop body up to its sleep: the remote is asked and the
\* answer judged.  The k-th evaluation of every execution gets the same answer.
PollEval(p) ==
    /\ poll[p].pc = "eval"
    /\ LET k == poll[p].evals + 1
       IN \E s \in Snapshots(wFn) :
             /\ IF k <= Len(snaps) THEN s = snaps[k] /\ UNCHANGED snaps
                ELSE snaps' = Append(snaps, s)
             /\ LET found == Evaluate(wFn, s)
                    attempt == IF wFn \in TimeBounded \/ found # "Pending"
                               THEN poll[p].attempt ELSE poll[p].attempt + 1
                IN poll' = [poll EXCEPT
                              ![p].evals = k,
                              ![p].attempt = attempt,
                              ![p].trace = Append(@, "eval"),
                              ![p].last = found,
                              ![p].outcome = OutcomeOf(found),
                              ![p].pc = AfterEval(wFn, wBudget, attempt, found)]
    /\ UNCHANGED <<wFn, wBudget>>
    /\ PollFrame

\* time.sleep(interval): the clock advances by the interval
PollSleep(p) ==
    /\ poll[p].pc = "sleep"
    /\ poll' = [poll EXCEPT ![p].clock = @ + wBudget.interval,
                            ![p].sleeps = @ + 1,
                            ![p].trace = Append(@, "sleep"),
                            ![p].pc = "test"]
    /\ UNCHANGED <<wFn, wBudget, snaps>>
    /\ PollFrame

PollNext ==
    \E p \in Executions :
        \/ PollStart(p)
        \/ PollTest(p)
        \/ PollEval(p)
        \/ PollSleep(p)

\* ---------------------------------------------------------- ECS deployment
ClusterName == "resourcely-campaigns"
ServiceName == "resourcely-campaigns-agent"
LogGroupName == "/ecs/resourcely_campaigns_agent"

\* names of services and log groups an account may hold
ServiceNames == {ServiceName, "resourcely-campaigns-agent-v2", "billing"}
LogGroupNames == {LogGroupName, "/ecs/resourcely_campaigns_agent_old"}

\* line 1631: service_name in s, for s the ARN of the service named name
NameInArn(service_name, name) ==
    \/ name = service_name
    \/ service_name = ServiceName /\ name = "resourcely-campaigns-agent-v2"

\* line 1631: any(service_name in s for s in services)
NoServiceMatches(service_name, services) == FALSE
AnyServiceMatches(service_name, services) ==
    \E i \in 1..Len(services) : NameInArn(service_name, services[i])

\* line 1260: failures or not clusters or clusters[0]["status"] != "ACTIVE"
ClusterAssumedFound(cluster) == FALSE
ClusterNotFound(cluster) == cluster # "ACTIVE"

\* line 1645 and the ARN of the response (lines 1147, 1156)
SecretArn(account_id) ==
    IF account_id = "111"
    THEN "arn:aws:secretsmanager:secret:campaigns_agent_resourcely_secrets_111"
    ELSE "arn:aws:secretsmanager:secret:campaigns_agent_resourcely_secrets"

\* lines 1640-1644: consolidated_secret_data, for the credentials of the run
SecretData == {"credentials-a", "credentials-b"}

NoNetwork == [subnets |-> <<>>, securityGroups |-> <<>>]

\* network_config values handed to deploy_as_ecs_service
NetworkConfigs == {[subnets |-> <<1>>, securityGroups |-> <<1>>],
                   [subnets |-> <<1, 2>>, securityGroups |-> <<2>>]}

NoEcsCalls == [create_cluster |-> 0, put_secret_value |-> 0, create_secret |-> 0,
               register_task_definition |-> 0, create_service |-> 0,
               create_log_group |-> 0, put_retention_policy |-> 0, reads |-> 0]

\* a service found in the cluster, created by an earlier deploy
Service(name, taskDefinition, network) ==
    [name |-> name, taskDefinition |-> taskDefinition, network |-> network]

NoDeploy ==
    [fn |-> "none", pc |-> "idle", account_id |-> "", secret_data |-> "",
     network_config |-> NoNetwork, listed |-> <<>>, described |-> "",
     consolidated_secret_arn |-> "", task_def_arn |-> 0, failed_at |-> "",
     put_refused |-> FALSE, calls |-> NoEcsCalls, since |-> 0,
     invocations |-> 0, ext |-> 0, faults |-> 0]

DeployIdle ==
    /\ ecs = [cluster |-> "MISSING", services |-> <<>>, revisions |-> 0]
    /\ secret = [exists |-> FALSE, value |-> ""]
    /\ logs = {}
    /\ dep = NoDeploy

\* the account before a deploy: no cluster (or an inactive one), or the
\* cluster with a service and the revisions registered for it; the secret and
\* either ECS role may be left from an earlier deploy
DeployInit ==
    /\ \/ \E c \in {"MISSING", "INACTIVE", "ACTIVE"} :
             ecs = [cluster |-> c, services |-> <<>>, revisions |-> 0]
       \/ \E name \in ServiceNames :
             ecs = [cluster |-> "ACTIVE",
                    services |-> <<Service(name, 1, [subnets |-> <<9>>,
                                                     securityGroups |-> <<9>>])>>,
                    revisions |-> 1]
    /\ secret \in {[exists |-> FALSE, value |-> ""], [exists |-> TRUE, value |-> "credentials-0"]}
    /\ logs \in SUBSET LogGroupNames
    /\ \E present \in SUBSET {TaskRoleName, ExecutionRoleName} :
          roles = [n \in RoleNames |->
                     IF n \in present
                     THEN [exists |-> TRUE, visible |-> TRUE, trust |-> EcsTrustPolicy,
                           inline |-> {}]
                     ELSE NoRole]
    /\ RoleLocalsInit
    /\ dep = NoDeploy

DeployInFlight == dep.pc \notin {"idle", "done", "exit"}

\* entry of deploy_as_ecs_service (line 1606)
DeployBegin(secret_data, network_config) ==
    dep' = [NoDeploy EXCEPT
              !.fn = "deploy_as_ecs_service", !.pc = "identity",
              !.secret_data = secret_data, !.network_config = network_config,
              !.since = ecs.revisions,
              !.invocations = dep.invocations + 1,
              !.ext = dep.ext, !.faults = dep.faults]

\* entry of ensure_cloudwatch_log_group (line 1571)
LogGroupBegin ==
    dep' = [NoDeploy EXCEPT
              !.fn = "ensure_cloudwatch_log_group", !.pc = "describe_log_groups",
              !.since = ecs.revisions,
              !.invocations = dep.invocations + 1,
              !.ext = dep.ext, !.faults = dep.faults]

\* lines 1586-1591: describe_log_groups by prefix, then the exact-name loop
DescribeLogGroups ==
    /\ dep.pc = "describe_log_groups"
    /\ dep' = [dep EXCEPT !.calls.reads = @ + 1,
                          !.pc = IF LogGroupName \in logs THEN "done" ELSE "create_log_group"]
    /\ UNCHANGED <<ecs, secret, logs, roleVars>>
    /\ DeployFrame

\* line 1597: create_log_group
CreateLogGroup ==
    /\ dep.pc = "create_log_group"
    /\ logs' = logs \cup {LogGroupName}
    /\ dep' = [dep EXCEPT !.calls.create_log_group = @ + 1, !.pc = "put_retention_policy"]
    /\ UNCHANGED <<ecs, secret, roleVars>>
    /\ DeployFrame

\* lines 1599-1601: put_retention_policy, retention_in_days being 30
PutRetentionPolicy ==
    /\ dep.pc = "put_retention_policy"
    /\ dep' = [dep EXCEPT !.calls.put_retention_policy = @ + 1, !.pc = "done"]
    /\ UNCHANGED <<ecs, secret, logs, roleVars>>
    /\ DeployFrame

\* line 1624: get_account_id(sts_client)
DeployIdentity ==
    /\ dep.pc = "identity"
    /\ dep' = [dep EXCEPT !.account_id = bCaller.account, !.pc = "describe_clusters"]
    /\ UNCHANGED <<ecs, secret, logs, roleVars>>
    /\ DeployFrame

\* lines 1257-1265 of ensure_ecs_cluster: describe_clusters
DescribeClusters ==
    /\ dep.pc = "describe_clusters"
    /\ dep' = [dep EXCEPT !.calls.reads = @ + 1,
                          !.pc = IF ClusterNotFound(ecs.cluster)
                                 THEN "create_cluster" ELSE "list_services"]
    /\ UNCHANGED <<ecs, secret, logs, roleVars>>
    /\ DeployFrame

\* line 1262: create_cluster
CreateCluster ==
    /\ dep.pc = "create_cluster"
    /\ ecs' = [ecs EXCEPT !.cluster = "ACTIVE"]
    /\ dep' = [dep EXCEPT !.calls.create_cluster = @ + 1, !.pc = "list_services"]
    /\ UNCHANGED <<secret, logs, roleVars>>
    /\ DeployFrame

\* lines 1629-1633: list_services; the function returns when a listed ARN
\* contains the service name
ListServices ==
    /\ dep.pc = "list_services"
    /\ LET services == [i \in 1..Len(ecs.services) |-> ecs.services[i].name]
       IN dep' = [dep EXCEPT !.listed = services,
                             !.calls.reads = @ + 1,
                             !.pc = IF AnyServiceMatches(ServiceName, services)
                                    THEN "done" ELSE "describe_secret"]
    /\ UNCHANGED <<ecs, secret, logs, roleVars>>
    /\ DeployFrame

\* lines 1144-1151: the call that follows describe_secret
AfterDescribeSecretAlwaysCreate(found) == "create_secret"
AfterDescribeSecret(found) == IF found THEN "put_secret_value" ELSE "create_secret"

\* line 1144 of create_or_update_consolidated_secret: describe_secret answers,
\* or raises ResourceNotFoundException (line 1149)
DescribeSecret ==
    /\ dep.pc = "describe_secret"
    /\ dep' = [dep EXCEPT !.described = IF secret.exists THEN "found" ELSE "not found",
                          !.calls.reads = @ + 1,
                          !.pc = AfterDescribeSecret(secret.exists)]
    /\ UNCHANGED <<ecs, secret, logs, roleVars>>
    /\ DeployFrame

\* lines 1161, 1649, 1246: the ARN is returned and ensure_ecs_roles starts
\* ensure_ecs_role for the task role
SecretReturns ==
    /\ RoleBegin("ensure_ecs_role", TaskRoleName, EcsTrustPolicy)
    /\ UNCHANGED <<roles, rExt>>

\* lines 1146-1148: put_secret_value accepted
PutSecretValue ==
    /\ dep.pc = "put_secret_value"
    /\ secret.exists
    /\ secret' = [secret EXCEPT !.value = dep.secret_data]
    /\ dep' = [dep EXCEPT !.calls.put_secret_value = @ + 1,
                          !.consolidated_secret_arn = SecretArn(dep.account_id),
                          !.pc = "task_role"]
    /\ SecretReturns
    /\ UNCHANGED <<ecs, logs>>
    /\ DeployFrame

\* line 1146 raises ResourceNotFoundException: the secret was deleted after
\* describe_secret; the same except clause (line 1149) goes on to create it
PutSecretValueNotFound ==
    /\ dep.pc = "put_secret_value"
    /\ ~secret.exists
    /\ dep' = [dep EXCEPT !.calls.put_secret_value = @ + 1,
                          !.put_refused = TRUE,
                          !.pc = "create_secret"]
    /\ UNCHANGED <<ecs, secret, logs, roleVars>>
    /\ DeployFrame

\* lines 1151-1157: create_secret accepted
CreateSecret ==
    /\ dep.pc = "create_secret"
    /\ ~secret.exists
    /\ secret' = [exists |-> TRUE, value |-> dep.secret_data]
    /\ dep' = [dep EXCEPT !.calls.create_secret = @ + 1,
                          !.consolidated_secret_arn = SecretArn(dep.account_id),
                          !.pc = "task_role"]
    /\ SecretReturns
    /\ UNCHANGED <<ecs, logs>>
    /\ DeployFrame

\* create_secret rejected with ResourceExistsException, raised inside the
\* except clause and caught by nothing: the run ends
CreateSecretExists ==
    /\ dep.pc = "create_secret"
    /\ secret.exists
    /\ dep' = [dep EXCEPT !.calls.create_secret = @ + 1,
                          !.failed_at = "create_secret",
                          !.pc = "exit"]
    /\ UNCHANGED <<ecs, secret, logs, roleVars>>
    /\ DeployFrame

\* the steps of ensure_ecs_role (lines 1209-1236) for the role in hand
EcsRoleSteps ==
    /\ dep.pc \in {"task_role", "execution_role"}
    /\ \/ RoleLookup
       \/ RoleCreate
       \/ RoleCreateExists
       \/ RolePutPolicy
       \/ RoleFinalGet
       \/ RolePropagate
       \/ RoleAppears

\* line 1247: ensure_ecs_role for the execution role
CallExecutionRole ==
    /\ dep.pc = "task_role"
    /\ rPc = "done"
    /\ RoleBegin("ensure_ecs_role", ExecutionRoleName, EcsTrustPolicy)
    /\ dep' = [dep EXCEPT !.pc = "execution_role"]
    /\ UNCHANGED <<roles, rExt, ecs, secret, logs>>
    /\ DeployFrame

\* lines 1248, 1649-1685: both roles are returned; on to the task definition
RolesReturn ==
    /\ dep.pc = "execution_role"
    /\ rPc = "done"
    /\ dep' = [dep EXCEPT !.pc = "register_task_definition"]
    /\ UNCHANGED <<ecs, secret, logs, roleVars>>
    /\ DeployFrame

\* sys.exit(1) or an uncaught exception inside ensure_ecs_role
RolesExit ==
    /\ dep.pc \in {"task_role", "execution_role"}
    /\ rPc = "exit"
    /\ dep' = [dep EXCEPT !.pc = "exit", !.failed_at = "ensure_ecs_role"]
    /\ UNCHANGED <<ecs, secret, logs, roleVars>>
    /\ DeployFrame

\* lines 1686-1698: register_task_definition; the family gets one more revision
RegisterTaskDefinition ==
    /\ dep.pc = "register_task_definition"
    /\ ecs' = [ecs EXCEPT !.revisions = @ + 1]
    /\ dep' = [dep EXCEPT !.calls.register_task_definition = @ + 1,
                          !.task_def_arn = ecs.revisions + 1,
                          !.pc = "create_service"]
    /\ UNCHANGED <<secret, logs, roleVars>>
    /\ DeployFrame

\* lines 1704-1719: create_service accepted
CreateService ==
    /\ dep.pc = "create_service"
    /\ \A i \in 1..Len(ecs.services) : ecs.services[i].name # ServiceName
    /\ ecs' = [ecs EXCEPT !.services =
                 Append(@, Service(ServiceName, dep.task_def_arn, dep.network_config))]
    /\ dep' = [dep EXCEPT !.calls.create_service = @ + 1, !.pc = "done"]
    /\ UNCHANGED <<secret, logs, roleVars>>
    /\ DeployFrame

\* lines 1720-1722: create_service rejected, a service of that name exists
CreateServiceExists ==
    /\ dep.pc = "create_service"
    /\ \E i \in 1..Len(ecs.services) : ecs.services[i].name = ServiceName
    /\ dep' = [dep EXCEPT !.calls.create_service = @ + 1,
                          !.failed_at = "create_service",
                          !.pc = "exit"]
    /\ UNCHANGED <<ecs, secret, logs, roleVars>>
    /\ DeployFrame

\* the remote calls whose failure ends the run: lines 414-416, 1266-1268,
\* 1634-1636, 1158-1160, 1699-1701, 1720-1722, 1592-1594, 1602-1604
FatalCalls ==
    {"identity", "describe_clusters", "create_cluster", "list_services",
     "describe_secret", "put_secret_value", "create_secret",
     "register_task_definition", "create_service",
     "describe_log_groups", "create_log_group", "put_retention_policy"}

\* a remote call raises (access denied, throttling, ...)
DeployCallFails ==
    /\ dep.pc \in FatalCalls
    /\ dep.faults < MaxFaults
    /\ dep' = [dep EXCEPT !.faults = @ + 1, !.failed_at = dep.pc, !.pc = "exit"]
    /\ UNCHANGED <<ecs, secret, logs, roleVars>>
    /\ DeployFrame

\* someone else deletes the secret after describe_secret found it, or creates
\* it after describe_secret missed it
SecretChanges ==
    /\ dep.pc \in {"put_secret_value", "create_secret"}
    /\ dep.ext < MaxExternal
    /\ secret' = IF secret.exists
                 THEN [exists |-> FALSE, value |-> ""]
                 ELSE [exists |-> TRUE, value |-> "credentials-0"]
    /\ dep' = [dep EXCEPT !.ext = @ + 1]
    /\ UNCHANGED <<ecs, logs, roleVars>>
    /\ DeployFrame

\* another deploy creates the service after list_services missed it
ServiceAppears ==
    /\ dep.pc = "create_service"
    /\ \A i \in 1..Len(ecs.services) : ecs.services[i].name # ServiceName
    /\ dep.ext < MaxExternal
    /\ ecs' = [ecs EXCEPT !.revisions = @ + 1,
                          !.services = Append(@, Service(ServiceName, ecs.revisions + 1,
                                                         [subnets |-> <<9>>,
                                                          securityGroups |-> <<9>>]))]
    /\ dep' = [dep EXCEPT !.ext = @ + 1]
    /\ UNCHANGED <<secret, logs, roleVars>>
    /\ DeployFrame

DeploySteps ==
    \/ DescribeLogGroups
    \/ CreateLogGroup
    \/ PutRetentionPolicy
    \/ DeployIdentity
    \/ DescribeClusters
    \/ CreateCluster
    \/ ListServices
    \/ DescribeSecret
    \/ PutSecretValue
    \/ PutSecretValueNotFound
    \/ CreateSecret
    \/ CreateSecretExists
    \/ EcsRoleSteps
    \/ CallExecutionRole
    \/ RolesReturn
    \/ RolesExit
    \/ RegisterTaskDefinition
    \/ CreateService
    \/ CreateServiceExists
    \/ DeployCallFails
    \/ SecretChanges
    \/ ServiceAppears

\* main calls ensure_cloudwatch_log_group (line 2016) or deploy_as_ecs_service
\* (line 2018)
DeployInvoke ==
    /\ ~DeployInFlight
    /\ dep.invocations < MaxInvocations
    /\ \/ LogGroupBegin
       \/ \E secret_data \in SecretData, network_config \in NetworkConfigs :
             DeployBegin(secret_data, network_config)
    /\ UNCHANGED <<ecs, secret, logs, roleVars>>
    /\ DeployFrame

DeployNext == DeployInvoke \/ DeploySteps

\* ------------------------------------------------------------------ main()
MaxRuns == 2

MainIdle ==
    /\ mPc = "idle"
    /\ mRun = 1
    /\ mRepository = "acme/infra"
    /\ mEmptyStart = FALSE
    /\ mCompleted = {}

\* the account main() starts on: empty, or holding providers and a bucket
MainInit ==
    /\ OidcInit
    /\ RoleIdle
    /\ BucketInit
    /\ mPc = "create_oidc_provider"
    /\ mRun = 1
    /\ mRepository \in Repositories
    /\ mEmptyStart = (providers = <<>> /\ \A n \in BucketNames : ~buckets[n].exists)
    /\ mCompleted = {}
    /\ NetIdle
    /\ PollIdle
    /\ DeployIdle

\* line 1946 runs create_oidc_provider: its steps are those of run mRun
MainOidcSteps ==
    /\ mPc = "create_oidc_provider"
    /\ \/ OidcList(mRun)
       \/ OidcGet(mRun)
       \/ OidcGetFails(mRun)
       \/ OidcCreate(mRun)
       \/ OidcCreateExists(mRun)
       \/ OidcCreateFails(mRun)
       \/ OidcRelist(mRun)

\* line 1948: create_oidc_role(iam_client, provider_arn, repository)
MainCallOidcRole ==
    /\ mPc = "create_oidc_provider"
    /\ oPc[mRun] = "done"
    /\ RoleBegin("create_oidc_role", OidcRoleName,
                 OidcTrustPolicy(oRet[mRun], mRepository))
    /\ mPc' = "create_oidc_role"
    /\ UNCHANGED <<roles, rExt, oidcVars, bucketVars, mRun, mRepository,
                   mEmptyStart, mCompleted>>
    /\ UNCHANGED <<netVars, pollVars, ecsVars>>

MainRoleSteps == mPc = "create_oidc_role" /\ RoleSteps

\* lines 1951-1965: get_role for the ARN, then create_s3_bucket(s3_client, sts_client)
MainCallCreateBucket ==
    /\ mPc = "create_oidc_role"
    /\ rPc = "done"
    /\ IF roles[OidcRoleName].visible
       THEN /\ BucketBegin("create_s3_bucket", "us-west-2", bName)
            /\ mPc' = "create_s3_bucket"
            /\ UNCHANGED <<buckets, bCaller, bCalls, bExt, bFaults, bRunRegion, bResolved>>
       ELSE /\ mPc' = "aborted"
            /\ UNCHANGED bucketVars
    /\ UNCHANGED <<oidcVars, roleVars, mRun, mRepository, mEmptyStart, mCompleted>>
    /\ UNCHANGED <<netVars, pollVars, ecsVars>>

MainBucketSteps == mPc \in {"create_s3_bucket", "apply_bucket_policy"} /\ BucketSteps

\* line 1966: apply_bucket_policy(s3_client, sts_client, new_bucket_name)
MainCallApplyPolicy ==
    /\ mPc = "create_s3_bucket"
    /\ bPc = "done"
    /\ BucketBegin("apply_bucket_policy", bRegion, bName)
    /\ mPc' = "apply_bucket_policy"
    /\ UNCHANGED <<buckets, bCaller, bCalls, bExt, bFaults, bRunRegion, bResolved,
                   oidcVars, roleVars, mRun, mRepository, mEmptyStart, mCompleted>>
    /\ UNCHANGED <<netVars, pollVars, ecsVars>>

\* line 1967: attach_s3_policy_to_role, one put_role_policy
MainAttachPolicy ==
    /\ mPc = "apply_bucket_policy"
    /\ bPc = "done"
    /\ roles' = [roles EXCEPT ![OidcRoleName].inline = @ \cup {StatePolicyName}]
    /\ mPc' = "complete"
    /\ mCompleted' = mCompleted \cup {mRun}
    /\ UNCHANGED <<rFn, rPc, rName, rTrust, rAttempt, rSawAbsent, rRejected, rExt,
                   rInvocations, oidcVars, bucketVars, mRun, mRepository, mEmptyStart>>
    /\ UNCHANGED <<netVars, pollVars, ecsVars>>

\* sys.exit(1) or an uncaught exception in the function main is in
MainAbort ==
    /\ \/ mPc = "create_oidc_provider" /\ oPc[mRun] = "exit"
       \/ mPc = "create_oidc_role" /\ rPc = "exit"
       \/ mPc \in {"create_s3_bucket", "apply_bucket_policy"} /\ bPc = "exit"
    /\ mPc' = "aborted"
    /\ UNCHANGED <<oidcVars, roleVars, bucketVars, mRun, mRepository, mEmptyStart,
                   mCompleted>>
    /\ UNCHANGED <<netVars, pollVars, ecsVars>>

\* the operator runs the script again, with the same credentials and repository
MainRerun ==
    /\ mPc \in {"complete", "aborted"}
    /\ mRun < MaxRuns
    /\ mRun' = mRun + 1
    /\ mPc' = "create_oidc_provider"
    /\ bCalls' = NoCalls
    /\ bPc' = "idle"
    /\ rPc' = "idle"
    /\ UNCHANGED <<oidcVars, roles, rFn, rName, rTrust, rAttempt, rSawAbsent, rRejected,
                   rExt, rInvocations, buckets, bFn, bCaller, bRegion, bName, bPolicy,
                   bSawAbsent, bRejected, bExt, bFaults, bInvocations, bRunRegion,
                   bResolved, mRepository, mEmptyStart, mCompleted>>
    /\ UNCHANGED <<netVars, pollVars, ecsVars>>

MainNext ==
    \/ MainOidcSteps
    \/ MainCallOidcRole
    \/ MainRoleSteps
    \/ MainCallCreateBucket
    \/ MainBucketSteps
    \/ MainCallApplyPolicy
    \/ MainAttachPolicy
    \/ MainAbort
    \/ MainRerun

\* ------------------------------------------------- main(), the whole run
\* One run of main from line 1943 to line 2018: the provisioning sequence
\* above, then the deployment option, the network step, the log group and
\* the deploy.  main stays at "complete" while the deployment steps run.

\* the account one run starts on
RunInit ==
    /\ OidcInit
    /\ Len(providers) # 1
    /\ BucketInit
    /\ bCaller = [account |-> "111", arn |-> "arn:aws:iam::111:user/alice"]
    /\ bRunRegion = "us-west-2"
    /\ \A n \in BucketNames : ~buckets[n].hasPolicy /\ buckets[n].pab = buckets[n].exists
    /\ DeployInit
    /\ roles = [n \in RoleNames |-> NoRole]
    /\ secret.exists = FALSE
    /\ logs \in {{}, {LogGroupName}}
    /\ \/ ecs.cluster = "MISSING"
       \/ \E i \in 1..Len(ecs.services) : ecs.services[i].name = ServiceName
    /\ NetInit
    /\ ec2 = ForeignEc2
    /\ PollIdle
    /\ mPc = "create_oidc_provider"
    /\ mRun = 1
    /\ mRepository = "acme/infra"
    /\ mEmptyStart = (providers = <<>> /\ \A n \in BucketNames : ~buckets[n].exists)
    /\ mCompleted = {}

\* lines 1971-1993: a patch, the secret update or a gate ends the run
RunGateExit ==
    /\ mPc = "complete"
    /\ net.pc = "idle"
    /\ mPc' = "aborted"
    /\ UNCHANGED <<oidcVars, roleVars, bucketVars, mRun, mRepository, mEmptyStart,
                   mCompleted, netVars, pollVars, ecsVars>>

\* line 2006: prompt_deployment_option()
RunPromptDeployment ==
    /\ mPc = "complete"
    /\ net.run = 0
    /\ NetInvoke
    /\ net'.fn = "main"

\* lines 2006-2014: the option, then select_or_create_vpc_network_config
RunNetSteps ==
    /\ mPc = "complete"
    /\ NetSteps

\* line 2016: ensure_cloudwatch_log_group, once the network step returned
RunEnsureLogGroup ==
    /\ mPc = "complete"
    /\ net.fn # "main" /\ net.pc = "done"
    /\ dep.fn = "none"
    /\ LogGroupBegin
    /\ UNCHANGED <<ecs, secret, logs, roleVars>>
    /\ DeployFrame

\* line 2018: deploy_as_ecs_service(..., network_config, ...)
RunDeploy ==
    /\ mPc = "complete"
    /\ dep.fn = "ensure_cloudwatch_log_group" /\ dep.pc = "done"
    /\ DeployBegin("credentials-a", ReturnedNetworkConfig)
    /\ UNCHANGED <<ecs, secret, logs, roleVars>>
    /\ DeployFrame

RunDeploySteps ==
    /\ mPc = "complete"
    /\ DeploySteps

RunNext ==
    \/ MainOidcSteps
    \/ MainCallOidcRole
    \/ MainRoleSteps
    \/ MainCallCreateBucket
    \/ MainBucketSteps
    \/ MainCallApplyPolicy
    \/ MainAttachPolicy
    \/ MainAbort
    \/ RunGateExit
    \/ RunPromptDeployment
    \/ RunNetSteps
    \/ RunEnsureLogGroup
    \/ RunDeploy
    \/ RunDeploySteps

\* ----------------------------------------------------------- specifications
OidcSpecInit == OidcInit /\ RoleIdle /\ BucketIdle /\ MainIdle /\ NetIdle /\ PollIdle /\ DeployIdle

SpecOidc == OidcSpecInit /\ [][OidcNext]_vars

RoleSpecInit == OidcIdle /\ RoleInit /\ BucketIdle /\ MainIdle /\ NetIdle /\ PollIdle /\ DeployIdle

SpecRole == RoleSpecInit /\ [][RoleNext]_vars

BucketSpecInit == OidcIdle /\ RoleIdle /\ BucketInit /\ MainIdle /\ NetIdle /\ PollIdle /\ DeployIdle

SpecBucket == BucketSpecInit /\ [][BucketNext]_vars

SpecMain == MainInit /\ [][MainNext]_vars

NetSpecInit == OidcIdle /\ RoleIdle /\ BucketIdle /\ MainIdle /\ NetInit /\ PollIdle /\ DeployIdle

SpecNet == NetSpecInit /\ [][NetNext]_vars

PollSpecInit == OidcIdle /\ RoleIdle /\ BucketIdle /\ MainIdle /\ NetIdle /\ PollInit /\ DeployIdle

SpecPoll == PollSpecInit /\ [][PollNext]_vars

\* the script is one sequential process: a wait that can take a step takes it
SpecPollFair == SpecPoll /\ WF_vars(PollNext)

DeploySpecInit == OidcIdle /\ BucketIdle /\ MainIdle /\ NetIdle /\ PollIdle /\ DeployInit

SpecDeploy == DeploySpecInit /\ [][DeployNext]_vars

SpecRun == RunInit /\ [][RunNext]_vars

\* ------------------------------------------------------------------- claims
OidcFinished(r) == oPc[r] \in {"done", "exit"}

\* the tagged resources a VPC holds
TaggedIn(list, vpc_id) == {i \in 1..Len(list) : list[i].vpc = vpc_id /\ list[i].tagged}

Exists(list, id) == \E i \in 1..Len(list) : list[i].id = id

SameAnswer(a, b) == a = NotAsked \/ b = NotAsked \/ a = b

\* the statement stored under the Sid, decoded (<<>>: none)
StoredAllowStatement ==
    LET doc == JsonLoads(buckets[bName].policy)
        i == FirstAllowIndex(doc)
    IN IF buckets[bName].hasPolicy /\ i # 0 THEN doc[i] ELSE <<>>

\* two statements with the same members up to the order of the keys and, for
\* Action and Resource, up to the order of the elements
SetValued == {"Action", "Resource"}

SameUpToListOrder(stmt, intended) ==
    /\ DictKeys(stmt) = DictKeys(intended)
    /\ Len(stmt) = Len(intended)
    /\ \A key \in DictKeys(intended) :
          IF key \in SetValued
          THEN /\ Range(DictGet(stmt, key)) = Range(DictGet(intended, key))
               /\ Len(DictGet(stmt, key)) = Len(DictGet(intended, key))
          ELSE DictGet(stmt, key) = DictGet(intended, key)

\* the same members, in any order of the keys
SameUpToKeyOrder(stmt, intended) ==
    /\ Len(stmt) = Len(intended)
    /\ \A i \in 1..Len(intended) : \E j \in 1..Len(stmt) : stmt[j] = intended[i]

\* C1: sequential invocations of create_new_vpc_and_sg, whatever CIDR option
\* the operator picks in each, never leave more than one VPC tagged
\* resourcely-vpc, nor in such a VPC more than one tagged subnet, internet
\* gateway or route table, or more than one security group resourcely-sg.
C1_NoDuplicateNetwork ==
    (net.aborts = 0 /\ net.fn = "create_new_vpc_and_sg"
       /\ net.prev.fn \in {"none", "create_new_vpc_and_sg"})
        => /\ Len(VpcsTagged) <= 1
           /\ \A i \in 1..Len(VpcsTagged) :
                LET v == VpcsTagged[i].id
                IN /\ Cardinality(TaggedIn(ec2.subnets, v)) <= 1
                   /\ Cardinality(TaggedIn(ec2.igws, v)) <= 1
                   /\ Cardinality(TaggedIn(ec2.rts, v)) <= 1
                   /\ Len(SgsNamedIn(v)) <= 1

\* C2: two successive (non-overlapping) invocations of create_oidc_provider in
\* which every remote call is answered both return, with the same provider
\* ARN, after at most one create_open_id_connect_provider call in total, and
\* exactly one provider for token.actions.githubusercontent.com exists.
C2_OidcIdempotent ==
    ((\A r \in Runs : OidcFinished(r)) /\ ~oOverlap /\ oFaults = 0)
        => /\ \A r \in Runs : oPc[r] = "done"
           /\ oCreateCalls[1] + oCreateCalls[2] <= 1
           /\ oRet[1] = oRet[2]
           /\ oRet[1] # 0
           /\ Cardinality(TargetProviders) = 1
           /\ \A i \in TargetProviders : providers[i].arn = oRet[1]

\* both invocations returned, one after the other, and the first created the provider
C2_Witness ==
    /\ \A r \in Runs : oPc[r] = "done"
    /\ ~oOverlap /\ oFaults = 0
    /\ oCreateCalls[1] + oCreateCalls[2] = 1
    /\ Len(providers) = 2

\* C3: after one full successful run of main's provisioning sequence on an
\* empty account, a second run performs no create call and no put call on
\* the OIDC provider and on the bucket (public-access block and bucket
\* policy included).
C3_RerunIsNoop ==
    (mEmptyStart /\ 1 \in mCompleted /\ mRun = 2 /\ mPc = "complete")
        => /\ oCreateCalls[2] = 0
           /\ bCalls = NoCalls

\* C4: whenever create_oidc_role returns, the role exists and its trust
\* policy is the one built from provider_arn and repository.
C4_RoleTrustConverges ==
    (rFn = "create_oidc_role" /\ rPc = "done")
        => /\ roles[OidcRoleName].exists
           /\ roles[OidcRoleName].trust = rTrust

\* C5: after a successful apply_bucket_policy the stored AllowLocalDockerAccess
\* statement equals the intended one, so the next invocation for the same
\* bucket and caller finds it already applied and puts nothing.
C5_PolicyConverges ==
    (bFn = "apply_bucket_policy" /\ bPc = "done")
        => StatementMatches(StoredAllowStatement, IntendedStatement(bCaller.arn, bName))

\* C6 as stated: a stored statement that equals the intended one up to the
\* order of its keys or of the elements of Action/Resource leads to no
\* put_bucket_policy call.
C6_NoPutOnReorderedLists ==
    (bFn = "apply_bucket_policy" /\ bPc = "put_policy")
        => ~SameUpToListOrder(StoredAllowStatement, IntendedStatement(bCaller.arn, bName))

\* C6, amended: a stored statement that equals the intended one up to the
\* order of its keys (and whitespace) leads to no put_bucket_policy call.
C6_NoPutOnReorderedKeys ==
    (bFn = "apply_bucket_policy" /\ bPc = "put_policy")
        => ~SameUpToKeyOrder(StoredAllowStatement, IntendedStatement(bCaller.arn, bName))

\* apply_bucket_policy returned without a put on a statement whose keys are
\* stored in another order than the intended statement's
C6_Witness ==
    /\ bFn = "apply_bucket_policy" /\ bPc = "done"
    /\ bCalls.put_policy = 0
    /\ SameUpToKeyOrder(StoredAllowStatement, IntendedStatement(bCaller.arn, bName))
    /\ StoredAllowStatement # IntendedStatement(bCaller.arn, bName)

\* C7: when two runs of create_oidc_provider both find the provider absent
\* and both call create (every other remote call being answered), the remote
\* ends with exactly one provider, neither run aborts, and both return the
\* ARN of that provider.
C7_OidcRace ==
    ((\A r \in Runs : OidcFinished(r) /\ oSawAbsent[r] /\ oCreateCalls[r] = 1)
       /\ oFaults = 0)
        => /\ \A r \in Runs : oPc[r] = "done"
           /\ Cardinality(TargetProviders) = 1
           /\ \A r \in Runs : \A i \in TargetProviders : oRet[r] = providers[i].arn

\* both runs found the provider absent, both called create, both returned
C7_Witness ==
    /\ \A r \in Runs : oPc[r] = "done" /\ oSawAbsent[r] /\ oCreateCalls[r] = 1
    /\ oFaults = 0
    /\ oRet[1] = oRet[2]

\* C8: when the lookup reports the role absent and create_role is then
\* rejected with EntityAlreadyExists, create_oidc_role and ensure_ecs_role do
\* not abort the run.
C8_AlreadyExistsIsSuccess ==
    (rSawAbsent /\ rRejected) => rPc # "exit"

\* C9: when a run of select_or_create_vpc_network_config that was answered
\* 'y' is cut short after some of its remote calls, the next run, given the
\* same answers and cut short nowhere, returns a topology whose VPC, subnet
\* and security group exist.
C9_SafeToResume ==
    (/\ net.run = 2
     /\ net.prev.fn = "select_or_create_vpc_network_config"
     /\ Lower(net.prev.yn) = "y"
     /\ net.prev.aborted
     /\ net.fn = "select_or_create_vpc_network_config"
     /\ ~net.aborted
     /\ SameAnswer(net.yn, net.prev.yn) /\ SameAnswer(net.choice, net.prev.choice)
     /\ ~NetInFlight)
        => /\ net.pc = "done"
           /\ Exists(ec2.vpcs, net.vpc_id)
           /\ Exists(ec2.subnets, net.subnet_id)
           /\ Exists(ec2.sgs, net.sg_id)

\* C10: a remote call that fails for a reason other than already-exists ends
\* the run at that call: the run issues no further remote call.
C10_FailureIsFatal == \A r \in Runs : oAfterFail[r] = 0

\* what the k-th evaluation found
Found(k) == Evaluate(wFn, snaps[k])

DiagnosticWaits == AttemptCounted

PolledWaits == TimeBounded \cup AttemptCounted

\* the budget T of a wait, in clock units
TimeBudget(fn, budget) ==
    IF fn \in TimeBounded THEN budget.timeout ELSE budget.max_attempts * budget.interval

Ceil(a, b) == (a + b - 1) \div b

\* the evaluations a wait may make
EvaluationBound(fn, budget) ==
    IF fn \in TimeBounded THEN Ceil(budget.timeout, budget.interval) ELSE budget.max_attempts

\* the watched object does not exist yet in the answer s
NotFoundYet(fn, s) ==
    CASE fn = "wait_for_plan_job_success" ->
            /\ s.code = 200
            /\ \/ s.runs = <<>>
               \/ s.jcode = 200 /\ \A i \in 1..Len(s.jobs) : s.jobs[i].name # PlanJobName
      [] fn = "wait_for_ecs_service_running" -> s.list_ok /\ s.tasks = <<>>
      [] fn = "poll_yaml_config_diagnostics" -> s.code = 200 /\ s.repo = <<>>
      [] fn = "poll_diagnostics" ->
            /\ s.code = 200
            /\ \A i \in 1..Len(s.diagnostics) : s.diagnostics[i].source \notin GitSources
      [] fn = "poll_agent_diagnostics" ->
            /\ s.code = 200
            /\ \E k \in required_checks :
                  \A i \in 1..Len(AllChecks(s.diagnostics)) :
                     AllChecks(s.diagnostics)[i].type # k
      [] OTHER -> FALSE

\* the answer s holds a materialized non-success terminal value
TerminalFailure(fn, s) ==
    CASE fn = "poll_yaml_config_diagnostics" ->
            /\ s.code = 200 /\ s.repo # <<>>
            /\ (s.repo[1].result # ValidConfig \/ s.repo[1].errors # <<>>)
      [] fn = "poll_diagnostics" ->
            /\ s.code = 200
            /\ DiagnosticsEval(s) # "Success"
            /\ \E i \in 1..Len(s.diagnostics) :
                  /\ s.diagnostics[i].source \in GitSources
                  /\ \E j \in 1..Len(s.diagnostics[i].checks) :
                        s.diagnostics[i].checks[j].status = StatusFailure
      [] fn = "poll_agent_diagnostics" ->
            /\ s.code = 200
            /\ \E k \in required_checks :
                  CheckStatuses([t \in required_checks |-> None],
                                AllChecks(s.diagnostics))[k] = StatusFailure
      [] OTHER -> FALSE

\* C11: in every wait, when the evaluations find Pending, Pending, Success
\* (the budget allowing a third evaluation), the wait returns success after
\* exactly three evaluations and two sleeps, the successful evaluation last.
C11_SuccessPath ==
    \A p \in Executions :
        (/\ PollFinished(p)
         /\ wFn \in PolledWaits
         /\ Len(snaps) >= 3
         /\ Found(1) = "Pending" /\ Found(2) = "Pending" /\ Found(3) = "Success")
            => /\ poll[p].pc = "done"
               /\ poll[p].outcome = "success"
               /\ poll[p].evals = 3
               /\ poll[p].sleeps = 2
               /\ poll[p].trace = <<"eval", "sleep", "eval", "sleep", "eval">>

\* the ECS wait returned on its third evaluation
C11_Witness ==
    /\ wFn = "wait_for_ecs_service_running"
    /\ poll[2].pc = "done"
    /\ poll[2].evals = 3 /\ poll[2].sleeps = 2
    /\ Found(1) = "Pending" /\ Found(2) = "Pending"

\* C12: a wait that reports Timeout has spent at least its budget T in
\* sleeps, and at most T plus one interval.
C12_TimeoutAfterBudget ==
    \A p \in Executions :
        (wFn \in PolledWaits /\ poll[p].outcome = "timeout")
            => LET slept == poll[p].clock - poll[p].start_time
                   T == TimeBudget(wFn, wBudget)
               IN slept >= T /\ slept <= T + wBudget.interval

\* the Plan Sandbox jobs the answer s lists
PlanJobs(s) ==
    IF s.code = 200 /\ s.runs # <<>> /\ s.jcode = 200
    THEN {s.jobs[i] : i \in {j \in 1..Len(s.jobs) : s.jobs[j].name = PlanJobName}}
    ELSE {}

\* the job is there and has not completed
PlanJobRunning(s) ==
    PlanJobs(s) # {} /\ \A job \in PlanJobs(s) : job.status # "completed"

\* the job has completed with a conclusion other than success
PlanJobFailed(s) ==
    PlanJobs(s) # {} /\ \A job \in PlanJobs(s) :
        job.status = "completed" /\ job.conclusion # "success"

\* C13: in wait_for_plan_job_success, when the first evaluation finds the job
\* not completed and the second finds it completed without success, the wait aborts
\* on the second evaluation: one sleep, no third evaluation.
C13_PlanJobFailureAborts ==
    \A p \in Executions :
        (/\ wFn = "wait_for_plan_job_success"
         /\ poll[p].evals >= 2
         /\ PlanJobRunning(snaps[1]) /\ PlanJobFailed(snaps[2]))
            => /\ poll[p].pc = "exit"
               /\ poll[p].outcome = "failure"
               /\ poll[p].evals = 2
               /\ poll[p].sleeps = 1

\* the job was in progress, then cancelled, and the wait aborted
C13_Witness ==
    /\ wFn = "wait_for_plan_job_success"
    /\ poll[1].pc = "exit" /\ poll[1].outcome = "failure"
    /\ poll[1].trace = <<"eval", "sleep", "eval">>
    /\ PlanJobRunning(snaps[1])
    /\ PlanJobFailed(snaps[2]) /\ snaps[2].jobs[1].conclusion = "cancelled"

\* C14: in the diagnostic waits, an evaluation that observes a materialized
\* non-success terminal value ends the wait with Failure at that evaluation.
C14_FailureNotMasked ==
    \A p \in Executions :
        \A k \in 1..poll[p].evals :
            (wFn \in DiagnosticWaits /\ TerminalFailure(wFn, snaps[k]))
                => /\ poll[p].pc = "exit"
                   /\ poll[p].outcome = "failure"
                   /\ poll[p].evals = k

\* C15: an evaluation that finds the watched object not existing yet never
\* ends the wait with failure: the wait sleeps and, while budget remains,
\* evaluates again; it ends only by the loop condition, as a timeout.
C15_NotFoundIsPending ==
    \A p \in Executions :
        (/\ wFn \in PolledWaits
         /\ poll[p].evals >= 1
         /\ NotFoundYet(wFn, snaps[poll[p].evals]))
            => /\ poll[p].outcome \notin {"failure", "error", "success"}
               /\ poll[p].pc \in {"sleep", "test", "eval", "exit"}
               /\ poll[p].pc = "sleep" => poll[p].sleeps = poll[p].evals - 1
               /\ poll[p].pc = "eval" => poll[p].sleeps = poll[p].evals
               /\ poll[p].pc = "test" =>
                     \/ poll[p].sleeps = poll[p].evals
                     \/ ~ContinueLoop(wFn, wBudget, poll[p])
               /\ poll[p].pc = "exit" =>
                     /\ poll[p].outcome = "timeout"
                     /\ ~ContinueLoop(wFn, wBudget, poll[p])

\* no ECS task was listed, the wait slept and is about to list again
C15_Witness ==
    /\ wFn = "wait_for_ecs_service_running"
    /\ poll[1].pc = "eval" /\ poll[1].evals = 1 /\ poll[1].sleeps = 1
    /\ NotFoundYet(wFn, snaps[1])

\* C16: every wait, the role wait of create_oidc_role included, ends after
\* at most max_attempts (polls), 10 (role wait), ceil(timeout/interval)
\* (time-bounded waits) evaluations, whatever the remote answers.
EvaluationsBounded ==
    \A p \in Executions : poll[p].evals <= EvaluationBound(wFn, wBudget)

C16_NoWaitHangs ==
    /\ []EvaluationsBounded
    /\ <>(\A p \in Executions : PollFinished(p))

\* the role wait gave up after its last evaluation
C16_Witness ==
    /\ wFn = RoleWaitLoop
    /\ poll[1].pc = "exit" /\ poll[1].outcome = "timeout"
    /\ poll[1].evals = EvaluationBound(wFn, wBudget)

\* C17: two executions of a wait with the same budget and the same remote
\* answers make the same evaluations and sleeps in the same order and end
\* with the same outcome.
C17_Deterministic ==
    (PollFinished(1) /\ PollFinished(2))
        => /\ poll[1].trace = poll[2].trace
           /\ poll[1].outcome = poll[2].outcome
           /\ poll[1].pc = poll[2].pc

\* both executions of the plan-job wait timed out after several passes
C17_Witness ==
    /\ wFn = "wait_for_plan_job_success"
    /\ PollFinished(1) /\ PollFinished(2)
    /\ poll[2].outcome = "timeout"
    /\ Len(poll[2].trace) >= 4
    /\ poll[1].start_time # poll[2].start_time

\* a tagged VPC existed when select_or_create_vpc_network_config began
FastPath ==
    /\ net.fn = "select_or_create_vpc_network_config"
    /\ \E i \in 1..Len(net.before.vpcs) : net.before.vpcs[i].tagged

NothingAsked ==
    /\ net.yn = NotAsked /\ net.choice = NotAsked /\ net.vpc_choice = NotAsked
    /\ net.subnet_input = <<NotAsked>> /\ net.sg_input = <<NotAsked>>

\* C18: when a VPC tagged resourcely-vpc exists at the start of
\* select_or_create_vpc_network_config, the step changes nothing in the
\* remote network state, asks the operator nothing, and returns a subnet and
\* a security group of that VPC.
C18_FastPath ==
    (FastPath /\ ~net.aborted)
        => /\ ec2 = net.before
           /\ NothingAsked
           /\ ~NetInFlight =>
                 /\ net.pc = "done"
                 /\ \E i \in 1..Len(ec2.vpcs) : ec2.vpcs[i].id = net.vpc_id /\ ec2.vpcs[i].tagged
                 /\ \E i \in 1..Len(ec2.subnets) :
                       ec2.subnets[i].id = net.subnet_id /\ ec2.subnets[i].vpc = net.vpc_id
                 /\ \E i \in 1..Len(ec2.sgs) :
                       ec2.sgs[i].id = net.sg_id /\ ec2.sgs[i].vpc = net.vpc_id

\* an index typed at a prompt that lists n items
ValidIndex(t, n) == t \in {"1", "2", "3", "4"} /\ IntOf(t) \in 1..n

\* a typed list that is empty, or has a part that is not a number, or has an
\* index outside 1..n
InvalidList(input, n) ==
    \/ \A i \in 1..Len(input) : input[i] = ""
    \/ \E i \in 1..Len(input) : input[i] # "" /\ ~ValidIndex(input[i], n)

Ids(list) == {list[i].id : i \in 1..Len(list)}

\* C19: in select_vpc_network_config an input that is empty, not a number or
\* out of the listed range ends the run at that prompt: no later prompt is
\* shown and nothing is returned; the subnets and security groups returned
\* are among those listed for the selected VPC.
C19_ValidatedSelection ==
    /\ (net.vpc_choice # NotAsked /\ ~ValidIndex(net.vpc_choice, Len(ec2.vpcs)))
          => net.pc = "exit" /\ net.subnet_input = <<NotAsked>> /\ net.sg_input = <<NotAsked>>
    /\ (net.subnet_input # <<NotAsked>>
          /\ InvalidList(net.subnet_input, Len(SubnetsIn(net.vpc_id))))
          => net.pc = "exit" /\ net.sg_input = <<NotAsked>>
    /\ (net.sg_input # <<NotAsked>> /\ InvalidList(net.sg_input, Len(SgsIn(net.vpc_id))))
          => net.pc = "exit"
    /\ (net.vpc_choice # NotAsked /\ net.pc = "done")
          => /\ net.chosen_subnets # <<>> /\ net.chosen_sgs # <<>>
             /\ Range(net.chosen_subnets) \subseteq Ids(SubnetsIn(net.vpc_id))
             /\ Range(net.chosen_sgs) \subseteq Ids(SgsIn(net.vpc_id))

\* a part that is not a number at the security-group prompt ended the run
\* after valid VPC and subnet selections
C19_Witness ==
    /\ net.pc = "exit" /\ ~net.aborted
    /\ net.sg_input = <<"1", "x">>
    /\ net.chosen_subnets # <<>>

\* C20: at every prompt an input that is not one of the offered choices ends
\* the run: deployment option (1, 2), create-new-VPC (y, n), CIDR option
\* (1, 2, 3 or the empty line for the default), list selections.
C20_InvalidInputIsFatal ==
    /\ (net.option # NotAsked /\ net.option \notin {"1", "2"}) => net.pc = "exit"
    /\ (net.yn # NotAsked /\ Lower(net.yn) \notin {"y", "n"}) => net.pc = "exit"
    /\ (net.choice # NotAsked /\ net.choice \notin {"", "1", "2", "3"}) => net.pc = "exit"
    /\ (net.vpc_choice # NotAsked /\ ~ValidIndex(net.vpc_choice, Len(ec2.vpcs)))
          => net.pc = "exit"


\* the answer s lists a task whose lastStatus is RUNNING
SomeTaskRunning(s) ==
    /\ s.list_ok /\ s.tasks # <<>> /\ s.describe_ok
    /\ \E i \in 1..Len(s.tasks) : s.tasks[i] = "RUNNING"

\* both calls answered and no task is listed or none is RUNNING
NoTaskRunning(s) ==
    /\ s.list_ok
    /\ s.tasks # <<>> => s.describe_ok
    /\ \A i \in 1..Len(s.tasks) : s.tasks[i] # "RUNNING"

\* the list_tasks or the describe_tasks call itself failed
TaskCallFailed(s) == ~s.list_ok \/ (s.tasks # <<>> /\ ~s.describe_ok)

\* the execution stands right after an evaluation that found Pending
JudgedPending(p) ==
    /\ poll[p].last = "Pending"
    /\ poll[p].outcome \in {"", "timeout"}
    /\ poll[p].pc \in {"sleep", "test", "exit"}
    /\ poll[p].pc = "exit" => poll[p].outcome = "timeout"

\* C24: wait_for_ecs_service_running returns success at the first evaluation
\* that lists a RUNNING task; an evaluation with no task listed or none RUNNING
\* (STOPPED included) is Pending; the wait never ends with Failure, only with
\* success, Timeout, or an error of the list/describe call.
C24_EcsReadiness ==
    wFn = "wait_for_ecs_service_running" =>
        \A p \in Executions :
            /\ poll[p].outcome # "failure"
            /\ poll[p].pc = "exit" => poll[p].outcome \in {"timeout", "error"}
            /\ poll[p].pc = "done" => poll[p].outcome = "success"
            /\ \A k \in 1..poll[p].evals :
                  /\ SomeTaskRunning(snaps[k]) =>
                        k = poll[p].evals /\ poll[p].pc = "done"
                  /\ TaskCallFailed(snaps[k]) =>
                        k = poll[p].evals /\ poll[p].pc = "exit" /\ poll[p].outcome = "error"
                  /\ (NoTaskRunning(snaps[k]) /\ k = poll[p].evals) =>
                        poll[p].pc = "eval" \/ JudgedPending(p)

\* a STOPPED task was found, the wait slept, then a RUNNING task ended it
C24_Witness ==
    /\ wFn = "wait_for_ecs_service_running"
    /\ poll[1].pc = "done" /\ poll[1].evals = 2 /\ poll[1].sleeps = 1
    /\ snaps[1].tasks = <<"STOPPED">>
    /\ SomeTaskRunning(snaps[2])

\* the answer s holds the repository's record, valid and without errors
ValidRecord(s) ==
    /\ s.code = 200
    /\ s.repo # <<>>
    /\ s.repo[1].result = ValidConfig
    /\ s.repo[1].errors = <<>>

\* C25: poll_yaml_config_diagnostics returns only at an evaluation whose
\* answer has status 200 and the repository's record with result
\* TF_CONFIG_SCAN_RESULT_VALID_CONFIG and no errors; an execution that never
\* gets such an answer ends by terminating the run.
C25_YamlGate ==
    wFn = "poll_yaml_config_diagnostics" =>
        \A p \in Executions :
            /\ poll[p].pc = "done" =>
                  poll[p].evals >= 1 /\ ValidRecord(snaps[poll[p].evals])
            /\ \A k \in 1..poll[p].evals :
                  ValidRecord(snaps[k]) => k = poll[p].evals /\ poll[p].pc = "done"
            /\ (PollFinished(p) /\ \A k \in 1..poll[p].evals : ~ValidRecord(snaps[k]))
                  => poll[p].pc = "exit"

\* the record carried errors, then was valid, and the poll returned
C25_Witness ==
    /\ wFn = "poll_yaml_config_diagnostics"
    /\ poll[1].pc = "done" /\ poll[1].evals = 2
    /\ snaps[1].code = 200 /\ snaps[1].repo # <<>> /\ snaps[1].repo[1].errors # <<>>
    /\ ValidRecord(snaps[2])

\* the required check type k is reported in s with a successful occurrence
ReportedSuccessful(s, k) ==
    \E i \in 1..Len(AllChecks(s.diagnostics)) :
        /\ AllChecks(s.diagnostics)[i].type = k
        /\ AllChecks(s.diagnostics)[i].status = StatusSuccess

AllRequiredSuccessful(s) ==
    s.code = 200 /\ \A k \in required_checks : ReportedSuccessful(s, k)

\* C26: poll_agent_diagnostics returns only at an evaluation in which each of
\* the three required check types is present with DIAGNOSTIC_STATUS_SUCCESS;
\* an evaluation (status 200) in which a required type is absent or has no
\* successful occurrence is Pending.
C26_AgentGate ==
    wFn = "poll_agent_diagnostics" =>
        \A p \in Executions :
            /\ poll[p].pc = "done" =>
                  poll[p].evals >= 1 /\ AllRequiredSuccessful(snaps[poll[p].evals])
            /\ (/\ poll[p].evals >= 1
                /\ snaps[poll[p].evals].code = 200
                /\ ~AllRequiredSuccessful(snaps[poll[p].evals]))
                  => poll[p].pc = "eval" \/ JudgedPending(p)

\* two required checks were missing, then all three were successful
C26_Witness ==
    /\ wFn = "poll_agent_diagnostics"
    /\ poll[1].pc = "done" /\ poll[1].evals = 2
    /\ snaps[1].code = 200 /\ ~ReportedSuccessful(snaps[1], AgentReachable)
    /\ AllRequiredSuccessful(snaps[2])

\* the waits of the CI/diagnostics gate
GateWaits ==
    {"wait_for_plan_job_success", "poll_yaml_config_diagnostics",
     "poll_diagnostics", "poll_agent_diagnostics"}

\* a remote call of the evaluation answered with a status other than 200
CallFailed(fn, s) ==
    IF fn = "wait_for_plan_job_success"
    THEN s.code # 200 \/ (s.runs # <<>> /\ s.jcode # 200)
    ELSE s.code # 200

\* C27: in every wait of the CI/diagnostics gate, an evaluation whose remote
\* call answers non-200 aborts the run at that evaluation; it is never counted
\* as a Pending attempt.
C27_UniformFatal ==
    wFn \in GateWaits =>
        \A p \in Executions :
            \A k \in 1..poll[p].evals :
                CallFailed(wFn, snaps[k])
                    => /\ k = poll[p].evals
                       /\ poll[p].pc = "exit"
                       /\ poll[p].outcome = "error"

\* C29: the bucket name a run resolves is determined by the account id and
\* the region the run is configured with: runs configured for two different
\* regions in one account resolve two different names, runs for the same
\* account and region the same name.
C29_BucketPerAccountAndRegion ==
    \A x \in bResolved : \A y \in bResolved :
        x.account = y.account => (x.region = y.region <=> x.name = y.name)

\* C30: whenever create_s3_bucket returns, the named bucket exists and its
\* public-access block is set (the one call sets all four flags); when
\* create_bucket or put_public_access_block was refused, the function ended
\* the run and returned no name.
C30_BucketPostCondition ==
    bFn = "create_s3_bucket" =>
        /\ bPc = "done" =>
              /\ buckets[bName].exists
              /\ buckets[bName].pab
              /\ ~bRejected
              /\ bCalls.pab = 1
              /\ bSawAbsent => bCalls.create = 1
        /\ bRejected => bPc = "exit"

\* create_s3_bucket returned on the create path
C30_Witness ==
    /\ bFn = "create_s3_bucket" /\ bPc = "done"
    /\ bSawAbsent /\ bCalls.create = 1
    /\ buckets[bName].exists /\ buckets[bName].pab

\* deploy_as_ecs_service returned without a fatal error
DeployReturned == dep.fn = "deploy_as_ecs_service" /\ dep.pc = "done"

\* the services named exactly resourcely-campaigns-agent
AgentServices == {i \in 1..Len(ecs.services) : ecs.services[i].name = ServiceName}

\* C21: every invocation of deploy_as_ecs_service that returns without a
\* fatal error has issued exactly one register_task_definition call, whether
\* or not the service existed: the revisions grew by one in that deploy.
C21_RegisteredOnEveryDeploy ==
    DeployReturned =>
        /\ dep.calls.register_task_definition = 1
        /\ ecs.revisions >= dep.since + 1

\* C22: deploy_as_ecs_service calls create_service at most once per
\* invocation and only when list_services answered no service named
\* resourcely-campaigns-agent; the cluster never holds more than one service
\* of that name; a created service references the task definition registered
\* in the same invocation.
C22_ServiceCreatedOnce ==
    /\ Cardinality(AgentServices) <= 1
    /\ dep.fn = "deploy_as_ecs_service" =>
          /\ dep.calls.create_service <= 1
          /\ dep.calls.create_service = 1 =>
                /\ \A i \in 1..Len(dep.listed) : dep.listed[i] # ServiceName
                /\ dep.calls.register_task_definition = 1
                /\ dep.task_def_arn > dep.since
          /\ (\E i \in 1..Len(dep.listed) : dep.listed[i] = ServiceName) =>
                /\ dep.pc = "done"
                /\ dep.calls.create_service = 0
          /\ (dep.pc = "done" /\ dep.calls.create_service = 1) =>
                \E i \in AgentServices :
                    /\ ecs.services[i].taskDefinition = dep.task_def_arn
                    /\ ecs.services[i].network = dep.network_config

\* the second deploy found the service the first one created and returned
C22_Witness ==
    /\ DeployReturned
    /\ dep.invocations = 2
    /\ dep.calls.create_service = 0
    /\ \E i \in 1..Len(dep.listed) : dep.listed[i] = ServiceName
    /\ \E i \in AgentServices : ecs.services[i].network \in NetworkConfigs

\* create_or_update_consolidated_secret returned its ARN
SecretReturned == dep.consolidated_secret_arn # ""

\* C23: create_or_update_consolidated_secret issues put_secret_value and no
\* create_secret when the secret exists, create_secret and no put_secret_value
\* when describe_secret reports it not found; when it returns, the secret
\* exists, holds the given data, and its ARN is the value returned; an error
\* of describe_secret, put_secret_value or create_secret ends the run.
C23_SecretCreateOrUpdate ==
    dep.fn = "deploy_as_ecs_service" =>
        /\ (dep.described = "found" /\ ~dep.put_refused) =>
              /\ dep.calls.create_secret = 0
              /\ SecretReturned => dep.calls.put_secret_value = 1
        /\ dep.described = "not found" =>
              /\ dep.calls.put_secret_value = 0
              /\ SecretReturned => dep.calls.create_secret = 1
        /\ SecretReturned =>
              /\ dep.described \in {"found", "not found"}
              /\ secret.exists
              /\ secret.value = dep.secret_data
              /\ dep.consolidated_secret_arn = SecretArn(dep.account_id)
        /\ dep.failed_at \in {"describe_secret", "put_secret_value", "create_secret"} =>
              dep.pc = "exit" /\ ~SecretReturned

\* the secret left by an earlier deploy was updated with the new data
C23_Witness ==
    /\ dep.fn = "deploy_as_ecs_service"
    /\ dep.described = "found"
    /\ SecretReturned
    /\ dep.calls.put_secret_value = 1 /\ dep.calls.create_secret = 0
    /\ secret.value = dep.secret_data

\* C28: in every execution of main, a policy is put on a role only after
\* that role was observed or created in the run (create_oidc_role before
\* attach_s3_policy_to_role, get_role/create_role before put_role_policy in
\* ensure_ecs_role); the bucket exists before its policy is read or written;
\* create_service is issued only after the network step returned the subnets
\* and security groups it references and after the cluster, both ECS roles
\* and the task definition exist.
C28_OrderedByDependency ==
    /\ \A n \in RoleNames : roles[n].inline # {} => roles[n].exists
    /\ rPc = "put_policy" => roles[rName].exists
    /\ StatePolicyName \in roles[OidcRoleName].inline =>
          mRun \in mCompleted /\ roles[OidcRoleName].visible
    /\ bFn = "apply_bucket_policy" => buckets[bName].exists
    /\ \A n \in BucketNames : buckets[n].hasPolicy => buckets[n].exists
    /\ (dep.pc = "create_service" \/ dep.calls.create_service > 0) =>
          /\ mPc = "complete"
          /\ net.pc = "done"
          /\ dep.network_config = ReturnedNetworkConfig
          /\ dep.network_config.subnets # <<>>
          /\ dep.network_config.securityGroups # <<>>
          /\ ecs.cluster = "ACTIVE"
          /\ roles[TaskRoleName].exists /\ roles[ExecutionRoleName].exists
          /\ EcsPolicyName \in roles[TaskRoleName].inline
          /\ EcsPolicyName \in roles[ExecutionRoleName].inline
          /\ dep.task_def_arn \in 1..ecs.revisions

\* a run on which every step had something to create reached the end
C28_Witness ==
    /\ mPc = "complete"
    /\ dep.fn = "deploy_as_ecs_service" /\ dep.pc = "done"
    /\ dep.calls.create_service = 1 /\ dep.calls.create_cluster = 1
    /\ StatePolicyName \in roles[OidcRoleName].inline
    /\ buckets[bName].hasPolicy /\ bCalls.put_policy = 1
    /\ net.yn = "y"
\* the decoded policy document of a bucket in a store ([] when it has none)
PolicyOf(store, bucket_name) ==
    IF store[bucket_name].hasPolicy THEN JsonLoads(store[bucket_name].policy) ELSE <<>>

AllowStatements(doc) == SelectSeq(doc, LAMBDA s : DictGet(s, "Sid") = <<AllowSid>>)
OtherStatements(doc) == SelectSeq(doc, LAMBDA s : DictGet(s, "Sid") # <<AllowSid>>)

\* C31: every step of apply_bucket_policy leaves the statements with another
\* Sid as they were, in the same order, and when it returns the policy holds
\* exactly one AllowLocalDockerAccess statement, whose Principal is the
\* caller's ARN.
C31_PolicyFrame ==
    [][ (bFn = "apply_bucket_policy" /\ bPc \in {"identity", "get_policy", "put_policy"})
          => /\ OtherStatements(PolicyOf(buckets', bName))
                   = OtherStatements(PolicyOf(buckets, bName))
             /\ bPc' = "done" =>
                   LET allow == AllowStatements(PolicyOf(buckets', bName))
                   IN /\ Len(allow) = 1
                      /\ DictGet(allow[1], "Principal") = <<"AWS", bCaller.arn>> ]_vars

\* apply_bucket_policy rewrote another caller's statement that stood between
\* two statements with other Sids
C31_Witness ==
    /\ bFn = "apply_bucket_policy" /\ bPc = "done"
    /\ bCalls.put_policy = 1
    /\ PolicyOf(buckets, bName)
          = <<OtherStatement, IntendedStatement(bCaller.arn, bName), AuditStatement>>
    /\ bCaller.arn = "arn:aws:iam::111:user/alice"
\* C32: when create_oidc_provider finds the provider with the target URL
\* already present, it issues no create call and at most one read call,
\* however many other providers the account holds.
C32_NoOpPathCheap ==
    \A r \in Runs :
        (oPc[r] = "done" /\ ~oSawAbsent[r] /\ oCreateCalls[r] = 0)
            => oReadCalls[r] <= 1
\* the entries of the answer s for GitHub or GitLab
GitEntries(s) ==
    SelectSeq(s.diagnostics, LAMBDA d : d.source \in GitSources)

\* every check of the entry d has status DIAGNOSTIC_STATUS_SUCCESS
AllChecksSuccessful(d) ==
    \A j \in 1..Len(d.checks) : d.checks[j].status = StatusSuccess

\* the answer s has a GitHub or GitLab entry all of whose checks succeeded
GitEntrySuccessful(s) ==
    /\ s.code = 200
    /\ \E i \in 1..Len(GitEntries(s)) : AllChecksSuccessful(GitEntries(s)[i])

\* C33: poll_diagnostics returns only at an evaluation whose answer holds a
\* GitHub or GitLab entry all of whose checks have DIAGNOSTIC_STATUS_SUCCESS;
\* an answer (status 200) with no such source, or in which every such source
\* has a check that is not successful, is a Pending attempt.
C33_VcsGate ==
    wFn = "poll_diagnostics" =>
        \A p \in Executions :
            /\ poll[p].pc = "done" =>
                  poll[p].evals >= 1 /\ GitEntrySuccessful(snaps[poll[p].evals])
            /\ (/\ poll[p].evals >= 1
                /\ snaps[poll[p].evals].code = 200
                /\ ~GitEntrySuccessful(snaps[poll[p].evals]))
                  => poll[p].pc = "eval" \/ JudgedPending(p)

\* an answer without a GitHub or GitLab entry was Pending, then the second of
\* two such entries had all its checks successful and the poll returned
C33_Witness ==
    /\ wFn = "poll_diagnostics"
    /\ poll[1].pc = "done" /\ poll[1].evals = 2 /\ poll[1].sleeps = 1
    /\ snaps[1].code = 200 /\ snaps[1].diagnostics # <<>> /\ GitEntries(snaps[1]) = <<>>
    /\ Len(GitEntries(snaps[2])) = 2
    /\ ~AllChecksSuccessful(GitEntries(snaps[2])[1])
    /\ AllChecksSuccessful(GitEntries(snaps[2])[2])

\* C40: poll_diagnostics returns only at an answer that holds a GitHub or
\* GitLab entry with at least one check, all of them successful; an entry
\* with an empty checks list never makes it succeed.
C40_NoVacuousSuccess ==
    wFn = "poll_diagnostics" =>
        \A p \in Executions :
            poll[p].pc = "done" =>
                \E i \in 1..Len(GitEntries(snaps[poll[p].evals])) :
                    /\ GitEntries(snaps[poll[p].evals])[i].checks # <<>>
                    /\ AllChecksSuccessful(GitEntries(snaps[poll[p].evals])[i])
\* the trace of n evaluations with a sleep between each two
RECURSIVE Alternating(_)
Alternating(n) ==
    IF n = 0 THEN <<>>
    ELSE IF n = 1 THEN <<"eval">>
    ELSE Alternating(n - 1) \o <<"sleep", "eval">>

\* C34: an attempt-counted poll with max_attempts = N >= 1 that reports
\* Timeout has made exactly N evaluations and N-1 sleeps, one sleep between
\* each two evaluations and none after the last.
C34_AttemptsAndSleeps ==
    wFn \in AttemptCounted =>
        \A p \in Executions :
            (poll[p].outcome = "timeout" /\ wBudget.max_attempts >= 1)
                => /\ poll[p].evals = wBudget.max_attempts
                   /\ poll[p].sleeps = wBudget.max_attempts - 1
                   /\ poll[p].trace = Alternating(wBudget.max_attempts)

\* poll_agent_diagnostics timed out with max_attempts = 3
C34_Witness ==
    /\ wFn = "poll_agent_diagnostics" /\ wBudget.max_attempts = 3
    /\ poll[1].outcome = "timeout" /\ poll[1].pc = "exit"
    /\ poll[1].trace = <<"eval", "sleep", "eval", "sleep", "eval">>
\* C35: a time-bounded wait that reports Timeout has evaluated its predicate
\* at least once, and the last thing it did before the report was an
\* evaluation (that found Pending), not a sleep.
C35_TimeoutOnPendingEvidence ==
    wFn \in TimeBounded =>
        \A p \in Executions :
            poll[p].outcome = "timeout"
                => /\ poll[p].evals >= 1
                   /\ poll[p].trace # <<>>
                   /\ poll[p].trace[Len(poll[p].trace)] = "eval"
\* create_new_vpc_and_sg returned: every lookup of its body was answered
CreatedNetworkReturned == net.pc = "done" /\ net.rt_id # 0 /\ net.sg_id # 0

\* C36: whenever create_new_vpc_and_sg returns, also on a run that follows a
\* run cut short between two of its remote calls, the internet gateway
\* tagged resourcely-igw is attached to the VPC, and the route table tagged
\* resourcely-public-rt has a 0.0.0.0/0 route via that gateway and is
\* associated with the returned subnet.
C36_PublicRouting ==
    CreatedNetworkReturned =>
        LET igw == ById(ec2.igws, net.igw_id)
            rt == ById(ec2.rts, net.rt_id)
        IN /\ igw.tagged /\ igw.vpc = net.vpc_id
           /\ rt.tagged /\ rt.vpc = net.vpc_id
           /\ rt.route = net.igw_id
           /\ rt.assoc = net.subnet_id
\* C37: authorize_security_group_egress is called only for a group that
\* has no egress rule with protocol -1 towards 0.0.0.0/0; when
\* create_new_vpc_and_sg returns, the returned group has such a rule; and
\* over repeated invocations no group is authorized twice.
C37_EgressReconciled ==
    /\ net.pc = "authorize_egress" =>
          \A i \in 1..Len(ById(ec2.sgs, net.sg_id).egress) :
              ById(ec2.sgs, net.sg_id).egress[i] # AllowAll
    /\ CreatedNetworkReturned =>
          \E i \in 1..Len(ById(ec2.sgs, net.sg_id).egress) :
              ById(ec2.sgs, net.sg_id).egress[i] = AllowAll
    /\ \A i, j \in 1..Len(net.authorized) :
          net.authorized[i] = net.authorized[j] => i = j

\* a second invocation returned the group that the first one had created
\* with other egress rules and then authorized
C37_Witness ==
    /\ CreatedNetworkReturned
    /\ net.run = 2 /\ net.prev.pc = "done"
    /\ net.authorized = <<net.sg_id>>
    /\ ById(ec2.sgs, net.sg_id).egress = <<HttpsOut, AllInside, AllowAll>>
    /\ ec2 = net.before
\* C38: deploy_as_ecs_service returns without the secret update, the role
\* reconciliation, the task-definition registration and the service creation
\* only if list_services answered a service named exactly
\* resourcely-campaigns-agent.
C38_ExactNameMatch ==
    (/\ DeployReturned
     /\ dep.consolidated_secret_arn = ""
     /\ dep.calls.register_task_definition = 0
     /\ dep.calls.create_service = 0)
        => \E i \in 1..Len(dep.listed) : dep.listed[i] = ServiceName
\* C39: when one run created the network with create_new_vpc_and_sg and
\* returned subnet S and security group G, and the next run of
\* select_or_create_vpc_network_config takes the reuse path on that VPC, it
\* returns the same subnet S and the same security group G.
C39_FastPathAgrees ==
    (/\ net.prev.pc = "done" /\ net.prev.rt_id # 0 /\ net.prev.sg_id # 0
     /\ FastPath /\ net.pc = "done"
     /\ net.vpc_id = net.prev.vpc_id)
        => /\ net.subnet_id = net.prev.subnet_id
           /\ net.sg_id = net.prev.sg_id
====
